---- MODULE Spec2Model ----
(***************************************************************************)
(* QOnboard: the resumable onboarding agent (src/qonboard/agent.py) and    *)
(* its persistent progress store (src/qonboard/state.py).                  *)
(*                                                                         *)
(* Spec      : runs of main() over a working set of tickets, with process  *)
(*             stops, restarts, operator answers and failing collaborators.*)
(* SpecStore : the StateManager API driven directly, every operation on    *)
(*             every ticket / environment / step, with reloads.            *)
(* SpecOne, SpecBatch : Spec on other tracker contents, with fairness.     *)
(* SpecTracker : Spec on a tracker whose status transitions may fail.      *)
(* SpecLegacy  : the StateManager over state files of other shapes.        *)
(* SpecQueries : the StateManager's read-only queries between mutators.    *)
(* SpecRegistry: the EnvRegistry driven directly.                          *)
(* SpecShared  : two StateManager instances on one state file.             *)
(* SpecPg      : PostgresClient driven directly.                           *)
(* SpecExtract : extract_customer_details over the answers of the LLM.     *)
(***************************************************************************)
EXTENDS Integers, Sequences, FiniteSets, TLC

VARIABLES
    mem,        \* StateManager._state of the running process
    file,       \* .onboard_state.json: [kind, data]
    pc,         \* position of the process in main / process_ticket / process_env
    queue,      \* tickets main still has to iterate over; Head is the current one
    failed,     \* main's failed list
    exit_code,  \* exit status of the last run (NoExit while running / never run)
    cache,      \* EnvRegistry._cache: environments with open clients
    conns,      \* clients constructed in this run that close() was not called on
    tenant,     \* process_env's local `tenant`
    new_users,  \* process_env's local `new_users` still to be POSTed
    trace,      \* operations issued by the current process_ticket call, in order
    hist,       \* what earlier runs left behind, per ticket (history)
    runs,       \* invocations of the tool so far
    faults,     \* _save() calls that failed so far
    ops,        \* StateManager mutators applied so far (SpecStore)
    tracker,    \* keys of the onboarding tickets the issue tracker holds
    ret,        \* result of the last StateManager query (SpecStore)
    peer,       \* StateManager._state of a second instance of the tool that
                \* runs at the same time on the same state file (SpecShared)
    workflow,   \* what the issue tracker and the configured status names make
                \* of a status transition in this run (TransitionOutcomes)
    db          \* the quilr_auth database of one environment, as committed and
                \* as the open transaction of PostgresClient._conn sees it (SpecPg)

vars == <<mem, file, pc, queue, failed, exit_code, cache, conns, tenant, new_users,
          trace, hist, runs, faults, ops, tracker, ret, peer, workflow, db>>

---------------------------------------------------------------------------
(* Program constants and the inputs the model enumerates.                  *)

TOTAL_STEPS == 5
Steps == 1..TOTAL_STEPS

\* Python's None, for string-valued and for dict-valued slots
NoneStr == "None"
NoneRec == [py_none |-> TRUE]

\* A Python dict is a function whose DOMAIN is its key set
EmptyDict == [x \in {} |-> x]
Get(d, k, default) == IF k \in DOMAIN d THEN d[k] ELSE default
Put(d, k, v) == [x \in (DOMAIN d) \cup {k} |-> IF x = k THEN v ELSE d[x]]
SetDefault(d, k, v) == IF k \in DOMAIN d THEN d ELSE Put(d, k, v)
\* d[k] = v
SetItem(d, k, v) == IF k \in DOMAIN d THEN [d EXCEPT ![k] = v] ELSE Put(d, k, v)

\* Keys of ENV_FILE_MAP / ENV_DOMAIN_MAP the model uses (the two maps have
\* the same keys and no None value)
ENV_FILE_MAP == {"UAE POC", "IND POC"}
ENV_DOMAIN_MAP == {"UAE POC", "IND POC"}
Envs == ENV_FILE_MAP

\* The tickets of the issue tracker: OnboardTicket(key, environment, users)
\* OPS-3 names an environment that is in neither map
Tickets == {"OPS-1", "OPS-2", "OPS-3"}
ticket_environment(t) ==
    IF t = "OPS-1" THEN "UAE POC" ELSE IF t = "OPS-2" THEN "IND POC" ELSE "QA POC"
ticket_users(t) ==
    IF t = "OPS-1" THEN <<"alice@acme.com", "bob@acme.com">>
    ELSE IF t = "OPS-2" THEN <<"carol@corp.io">>
    ELSE <<"dave@qa.dev">>

\* The rows public.tenant can return for a domain
TenantRecord(id) == [id |-> id, subscriberid |-> "sub", name |-> "acme.com"]
PgTenants == {TenantRecord("tn-1")}

\* secrets.token_urlsafe(16) values
Passwords == {"pw-1", "pw-2"}

\* datetime.now(tz=utc).isoformat()
Now == "now"

---------------------------------------------------------------------------
(* StateManager: src/qonboard/state.py                                     *)

\* the default record _ticket() inserts
NewTicket ==
    [started_at |-> Now, monitor_password |-> NoneStr,
     environments |-> EmptyDict, completed |-> FALSE, completed_at |-> NoneStr]

\* the default record _env() inserts
NewEnv ==
    [steps_done |-> <<>>, tenant |-> NoneRec, monitoring_user |-> NoneRec,
     completed |-> FALSE, completed_at |-> NoneStr]

\* _ticket(): setdefault on the top-level dict; returns the updated state
WithTicket(s, t) == SetDefault(s, t, NewTicket)

\* _env(): setdefault on the ticket, then on its environments
WithEnv(s, t, e) ==
    LET s1 == WithTicket(s, t)
    IN  [s1 EXCEPT ![t].environments = SetDefault(@, e, NewEnv)]

\* _env() raises KeyError: the ticket record exists and has no "environments"
env_raises(s, t) == t \in DOMAIN s /\ "environments" \notin DOMAIN s[t]

\* the chain of .get(..., {}) the read-only queries use
EnvGet(s, t, e) == Get(Get(Get(s, t, EmptyDict), "environments", EmptyDict), e, EmptyDict)

InSeq(x, q) == \E i \in 1..Len(q) : q[i] = x
SeqSet(q) == {q[i] : i \in 1..Len(q)}

is_step_done_missing_is_done(s, t, e, step) ==
    IF t \notin DOMAIN s THEN TRUE
    ELSE InSeq(step, Get(EnvGet(s, t, e), "steps_done", <<>>))

is_step_done_never(s, t, e, step) == FALSE

is_step_done(s, t, e, step) == InSeq(step, Get(EnvGet(s, t, e), "steps_done", <<>>))

mark_step_done_overwrites(s, t, e, step) ==
    [WithEnv(s, t, e) EXCEPT ![t].environments[e].steps_done = <<step>>]

mark_step_done_always_appends(s, t, e, step) ==
    LET s1 == WithEnv(s, t, e)
    IN  [s1 EXCEPT ![t].environments[e].steps_done = Append(@, step)]

mark_step_done_prepends(s, t, e, step) ==
    LET s1 == WithEnv(s, t, e)
        done == s1[t].environments[e].steps_done
    IN  IF InSeq(step, done) THEN s1
        ELSE [s1 EXCEPT ![t].environments[e].steps_done = <<step>> \o done]

\* mark_step_done raises KeyError: in _env(), or at env["steps_done"]
mark_step_done_raises(s, t, e) ==
    \/ env_raises(s, t)
    \/ /\ t \in DOMAIN s
       /\ e \in DOMAIN s[t].environments
       /\ "steps_done" \notin DOMAIN s[t].environments[e]

mark_step_done(s, t, e, step) ==
    LET s1 == WithEnv(s, t, e)
        done == s1[t].environments[e].steps_done
    IN  IF InSeq(step, done) THEN s1
        ELSE [s1 EXCEPT ![t].environments[e].steps_done = Append(done, step)]

get_steps_done(s, t, e) == SeqSet(Get(EnvGet(s, t, e), "steps_done", <<>>))

save_tenant(s, t, e, tn) ==
    [WithEnv(s, t, e) EXCEPT ![t].environments[e] = SetItem(@, "tenant",
        [id |-> tn.id, subscriberid |-> tn.subscriberid, name |-> tn.name])]

\* get_tenant raises KeyError: a non-empty tenant entry lacks one of the keys
get_tenant_raises(s, t, e) ==
    LET raw == Get(EnvGet(s, t, e), "tenant", NoneRec)
    IN  /\ raw # NoneRec
        /\ DOMAIN raw # {}
        /\ ~({"id", "subscriberid", "name"} \subseteq DOMAIN raw)

\* `if not raw: return None`, else TenantRecord(id=raw["id"], ...)
get_tenant(s, t, e) ==
    LET raw == Get(EnvGet(s, t, e), "tenant", NoneRec)
    IN  IF raw = NoneRec \/ raw = EmptyDict THEN NoneRec
        ELSE [id |-> raw.id, subscriberid |-> raw.subscriberid, name |-> raw.name]

save_monitoring_user(s, t, e, email) ==
    [WithEnv(s, t, e) EXCEPT ![t].environments[e] =
        SetItem(@, "monitoring_user", [email |-> email])]

\* get_monitoring_user raises KeyError: a non-empty entry without "email"
get_monitoring_user_raises(s, t, e) ==
    LET raw == Get(EnvGet(s, t, e), "monitoring_user", NoneRec)
    IN  /\ raw # NoneRec
        /\ DOMAIN raw # {}
        /\ "email" \notin DOMAIN raw

get_monitoring_user(s, t, e) ==
    LET raw == Get(EnvGet(s, t, e), "monitoring_user", NoneRec)
    IN  IF raw = NoneRec \/ raw = EmptyDict THEN NoneStr ELSE raw.email

get_monitor_password(s, t) == Get(Get(s, t, EmptyDict), "monitor_password", NoneStr)

save_monitor_password(s, t, pw) ==
    [WithTicket(s, t) EXCEPT ![t] = SetItem(@, "monitor_password", pw)]

is_env_completed(s, t, e) == Get(EnvGet(s, t, e), "completed", FALSE)

mark_env_completed_creates_only(s, t, e) == WithEnv(s, t, e)

mark_env_completed_sets_time_only(s, t, e) ==
    [WithEnv(s, t, e) EXCEPT ![t].environments[e] = SetItem(@, "completed_at", Now)]

mark_env_completed(s, t, e) ==
    [WithEnv(s, t, e) EXCEPT ![t].environments[e] =
        SetItem(SetItem(@, "completed", TRUE), "completed_at", Now)]

\* all(envs.get(e, {}).get("completed", False) for e in all_env_names)
RECURSIVE AllCompleted(_, _)
AllCompleted(envs, names) ==
    IF names = <<>> THEN TRUE
    ELSE IF ~Get(Get(envs, Head(names), EmptyDict), "completed", FALSE) THEN FALSE
    ELSE AllCompleted(envs, Tail(names))

is_completed_ticket_flag(s, t, all_env_names) == Get(Get(s, t, EmptyDict), "completed", FALSE)

is_completed(s, t, all_env_names) ==
    AllCompleted(Get(Get(s, t, EmptyDict), "environments", EmptyDict), all_env_names)

mark_completed(s, t) ==
    [WithTicket(s, t) EXCEPT ![t] = SetItem(SetItem(@, "completed", TRUE), "completed_at", Now)]

\* The state file
FileAbsent == [kind |-> "absent", data |-> EmptyDict]
FileCorrupt == [kind |-> "corrupt", data |-> EmptyDict]
FileJson(s) == [kind |-> "json", data |-> s]

\* _load(): the parsed file, or {} when it is missing or unreadable
Load(f) == IF f.kind = "json" THEN f.data ELSE EmptyDict

\* _save() over file f when write_text raises (the exception is swallowed):
\* the old file is left (open failed) or a truncated, unparsable one
SaveFailed(f) == {f, FileCorrupt}

---------------------------------------------------------------------------
(* The process: main -> process_ticket -> process_env                      *)

NoExit == -1

\* bounds of the exploration
MaxRuns == 3
MaxSaveFaults == 1
MaxStoreOps == 3
MaxStoreStep == 2
MaxCustomers == 2
At(ph) == [ph |-> ph, k |-> 0]
AtStep(ph, k) == [ph |-> ph, k |-> k]

Ev(op, k, arg) == [op |-> op, k |-> k, arg |-> arg]

\* history of the current (or last) process_ticket call, with the users step 1
\* found to need provisioning and those it found an account for; per ticket the step
\* whose approved action raised in the last call that reached a step; the
\* ticket list of this run and what main did with each ticket so far; per
\* ticket the number of generate_password() calls over all runs; what the
\* state file was when this run loaded it
NoCall ==
    [ticket |-> "", start_empty |-> FALSE, start_done |-> {},
     start_tenant |-> FALSE, declined |-> 0, prev_raised |-> 0,
     new |-> <<>>, known |-> {}]

\* JiraClient._transition(ticket_key, status_name): returns at once when the
\* configured status name is empty; otherwise lists the transitions and takes
\* the one whose name matches, logs a warning when none matches, and catches
\* every exception of the tracker calls.  Each outcome returns None.
TransitionOutcomes ==
    {"transitioned", "no status name", "no matching transition", "call failed"}

\* public.tenant and public.subscriber hold at most one row per name; a row
\* is "set" once its onboarding columns have the values of
\* apply_onboarding_updates
PgDomains == {"acme.com", "corp.io"}
PgTables == {"tenant", "subscriber"}
PgRows == PgTables \X PgDomains
RowStates == {"absent", "unset", "set"}
\* public."user" holds any number of rows per email; the model keeps their
\* number for the monitoring emails
MonEmails == {"monitor+acme@quilr.ai", "monitor+corp@quilr.ai"}
PgUsers == {"user"} \X MonEmails
DbKeys == PgRows \cup PgUsers
Content(rows, users) == [r \in DbKeys |-> IF r \in PgRows THEN rows[r] ELSE users[r]]
Database(content) == [committed |-> content, working |-> content]
Onboardable == Content([r \in PgRows |-> "unset"], [r \in PgUsers |-> 0])

\* self._conn.commit()
commit(d) == [d EXCEPT !.committed = d.working]

rollback_keeps_pending(d) == d

\* self._conn.rollback()
rollback(d) == [d EXCEPT !.working = d.committed]

\* INSERT INTO public."user" ... inside the open transaction
Insert(d, email) ==
    [d EXCEPT !.working = [r \in DbKeys |->
        IF r = <<"user", email>> THEN @[r] + 1 ELSE @[r]]]

\* SELECT 1 FROM public."user" WHERE "email" = %s LIMIT 1 returns a row
UserExists(d, email) == d.working[<<"user", email>>] > 0

\* where create_monitoring_user can leave: the pre-check raising (outside the
\* try), the pre-check finding a row, the INSERT or the commit raising, or
\* the commit returning
CreateOutcomes(d, email) ==
    {"check raised"} \cup
        (IF UserExists(d, email) THEN {"exists"}
         ELSE {"INSERT raised", "commit raised", "created"})
CreateReturns(outcome) == outcome \in {"exists", "created"}
Created(outcome) == IF outcome = "created" THEN "True" ELSE "False"

create_monitoring_user_no_precheck(d, email, outcome) ==
    CASE outcome = "check raised" -> d
      [] outcome = "INSERT raised" -> rollback(d)
      [] outcome = "commit raised" -> rollback(Insert(d, email))
      [] OTHER -> commit(Insert(d, email))

\* create_monitoring_user(email, ...): pre-check, then INSERT and commit in a
\* try; on an exception there, rollback and re-raise
create_monitoring_user(d, email, outcome) ==
    CASE outcome = "check raised" -> d
      [] outcome = "exists" -> d
      [] outcome = "INSERT raised" -> rollback(d)
      [] outcome = "commit raised" -> rollback(Insert(d, email))
      [] OTHER -> commit(Insert(d, email))

InitFor(keys, outcomes, contents) ==
    /\ mem = EmptyDict
    /\ file = FileAbsent
    /\ pc = At("off")
    /\ queue = <<>>
    /\ failed = <<>>
    /\ exit_code = NoExit
    /\ cache = {}
    /\ conns = {}
    /\ tenant = NoneRec
    /\ new_users = <<>>
    /\ trace = <<>>
    /\ hist = [call |-> NoCall, raised |-> [t \in Tickets |-> 0],
               work |-> <<>>, handled |-> <<>>, gen |-> [t \in Tickets |-> 0],
               posted |-> [t \in Tickets |-> 0],
               loaded |-> "none"]
    /\ runs = 0
    /\ faults = 0
    /\ ops = 0
    /\ tracker = keys
    /\ ret = [fn |-> "none"]
    /\ peer = EmptyDict
    /\ workflow \in outcomes
    /\ \E rows \in contents : db = Database(rows)

InitWith(keys) == InitFor(keys, {"transitioned"}, {Onboardable})

Init == InitWith({"OPS-1"})

StoreWrite_batched(s2) ==
    /\ mem' = s2
    /\ \/ file' = file /\ faults' = faults
       \/ /\ faults < MaxSaveFaults
          /\ file' \in SaveFailed(file)
          /\ faults' = faults + 1

StoreWrite_failure_drops(s2) ==
    \/ mem' = s2 /\ file' = FileJson(s2) /\ faults' = faults
    \/ /\ faults < MaxSaveFaults
       /\ mem' = mem
       /\ file' \in SaveFailed(file)
       /\ faults' = faults + 1

\* the save is given up when the file is not what this instance last saw
StoreWrite_checks_file(s2) ==
    /\ mem' = s2
    /\ \/ /\ faults' = faults
          /\ file' = IF Load(file) = mem THEN FileJson(s2) ELSE file
       \/ /\ faults < MaxSaveFaults
          /\ file' \in SaveFailed(file)
          /\ faults' = faults + 1

\* a mutating StateManager call: the in-memory update, then _save()
StoreWrite(s2) ==
    /\ mem' = s2
    /\ \/ file' = FileJson(s2) /\ faults' = faults
       \/ /\ faults < MaxSaveFaults
          /\ file' \in SaveFailed(file)
          /\ faults' = faults + 1

Cur == Head(queue)
CurEnv == ticket_environment(Cur)

Log(op, k, arg) == trace' = Append(trace, Ev(op, k, arg))

\* the ticket lists jira.fetch_pending_tickets() can return
WorkingSets ==
    {<<>>} \cup {<<t>> : t \in tracker}
           \cup {w \in tracker \X tracker : w[1] # w[2]}

\* main(): Config(), EnvRegistry(), JiraClient(), StateManager() (which loads
\* the state file), then the resolution of the working set
Start ==
    /\ pc = At("off")
    /\ runs < MaxRuns
    /\ runs' = runs + 1
    /\ mem' = Load(file)
    /\ pc' = At("resolve")
    /\ queue' = <<>>
    /\ failed' = <<>>
    /\ exit_code' = NoExit
    /\ cache' = {}
    /\ conns' = {}
    /\ tenant' = NoneRec
    /\ new_users' = <<>>
    /\ trace' = <<>>
    /\ hist' = [hist EXCEPT !.call = NoCall, !.work = <<>>, !.handled = <<>>,
                           !.loaded = file.kind]
    /\ UNCHANGED <<file, faults, ops, tracker, ret, peer, workflow, db>>

\* the two clients registry.get constructs for an environment
ClientsOf(e) == {<<e, "pg">>, <<e, "neo4j">>}

\* close_all(): pg.close() and neo4j.close() for every cached environment,
\* each in its own try/except, so that whichever subset `raising` of the
\* closes raises, close is still called on every cached client; then the
\* cache is cleared
close_all(cached, open, raising) == open \ UNION {ClientsOf(e) : e \in cached}

\* exit of main through the finally block: registry.close_all()
Exit(code) ==
    /\ pc' = At("off")
    /\ exit_code' = code
    /\ \E raising \in SUBSET UNION {ClientsOf(e) : e \in cache} :
          conns' = close_all(cache, conns, raising)
    /\ cache' = {}

\* `qonboard OPS-1`: jira.fetch_ticket(key) parsed the ticket
ResolveExplicit ==
    /\ pc = At("resolve")
    /\ \E t \in tracker :
          /\ queue' = <<t>>
          /\ hist' = [hist EXCEPT !.work = <<t>>]
    /\ pc' = At("loop")
    /\ UNCHANGED <<mem, file, failed, exit_code, cache, conns, tenant, new_users, trace, runs, faults, ops, tracker, ret, peer, workflow, db>>

\* fetch_ticket returned None: sys.exit(1)
ResolveUnparsable ==
    /\ pc = At("resolve")
    /\ trace' = <<Ev("jira.fetch_ticket", 0, "None")>>
    /\ Exit(1)
    /\ UNCHANGED <<mem, file, queue, failed, tenant, new_users, hist, runs, faults, ops, tracker, ret, peer, workflow, db>>

\* no key given: jira.fetch_pending_tickets(); an empty list returns at once
ResolvePending ==
    /\ pc = At("resolve")
    /\ \E ws \in WorkingSets :
        /\ queue' = ws
        /\ hist' = [hist EXCEPT !.work = ws]
        /\ IF ws = <<>>
           THEN Exit(0)
           ELSE pc' = At("loop") /\ UNCHANGED <<exit_code, cache, conns>>
    /\ UNCHANGED <<mem, file, failed, tenant, new_users, trace, runs, faults, ops, tracker, ret, peer, workflow, db>>

\* jira.issue(key) or jira.search_issues(jql) raises: the exception leaves
\* main through the finally block and the interpreter exits with status 1
ResolveRaises ==
    /\ pc = At("resolve")
    /\ \E fn \in {"jira.fetch_ticket", "jira.fetch_pending_tickets"} :
          trace' = <<Ev("raise", 0, fn)>>
    /\ Exit(1)
    /\ UNCHANGED <<mem, file, queue, failed, tenant, new_users, hist, runs, faults, ops, tracker, ret, peer, workflow, db>>

LoopDone_always_zero ==
    /\ pc = At("loop")
    /\ queue = <<>>
    /\ Exit(0)
    /\ UNCHANGED <<mem, file, queue, failed, tenant, new_users, trace, hist, runs, faults, ops, tracker, ret, peer, workflow, db>>

\* for ticket in tickets: ... ; after the loop the summary and the exit status
LoopDone ==
    /\ pc = At("loop")
    /\ queue = <<>>
    /\ Exit(IF failed # <<>> THEN 1 ELSE 0)
    /\ UNCHANGED <<mem, file, queue, failed, tenant, new_users, trace, hist, runs, faults, ops, tracker, ret, peer, workflow, db>>

main_skips_ticket_by_ticket_flag(s, t) == Get(Get(s, t, EmptyDict), "completed", FALSE)

\* main's test `state.is_completed(ticket.key, [ticket.environment])`
main_skips_ticket(s, t) == is_completed(s, t, <<ticket_environment(t)>>)

LoopSkip ==
    /\ pc = At("loop")
    /\ queue # <<>>
    /\ main_skips_ticket(mem, Cur)
    /\ queue' = Tail(queue)
    /\ trace' = <<Ev("main.skip_completed", 0, Cur)>>
    /\ hist' = [hist EXCEPT !.call = [NoCall EXCEPT !.ticket = Cur],
                           !.handled = Append(@, <<Cur, "skipped">>)]
    /\ UNCHANGED <<mem, file, pc, failed, exit_code, cache, conns, tenant, new_users, runs, faults, ops, tracker, ret, peer, workflow, db>>

\* process_ticket(ticket, ...) is entered
LoopProcess ==
    /\ pc = At("loop")
    /\ queue # <<>>
    /\ ~main_skips_ticket(mem, Cur)
    /\ pc' = At("pt_in_progress")
    /\ trace' = <<>>
    /\ tenant' = NoneRec
    /\ new_users' = <<>>
    /\ hist' = [hist EXCEPT
            !.raised[Cur] = 0,
            !.call = [ticket |-> Cur,
                      start_empty |-> Cur \notin DOMAIN mem,
                      start_done |-> get_steps_done(mem, Cur, CurEnv),
                      start_tenant |-> get_tenant(mem, Cur, CurEnv) # NoneRec,
                      declined |-> 0,
                      prev_raised |-> hist.raised[Cur],
                      new |-> <<>>, known |-> {}]]
    /\ UNCHANGED <<mem, file, queue, failed, exit_code, cache, conns, runs, faults, ops, tracker, ret, peer, workflow, db>>

Return_aborts_on_raise(raised) ==
    /\ pc' = At("loop")
    /\ queue' = IF raised THEN <<>> ELSE Tail(queue)
    /\ failed' = IF raised THEN Append(failed, Cur) ELSE failed
    /\ hist' = [hist EXCEPT
          !.handled = Append(@, <<Cur, IF raised THEN "raised" ELSE "returned">>)]

\* process_ticket returns to main's loop: normally, or by raising into
\* `except Exception: failed.append(ticket.key)`
Return(raised) ==
    /\ pc' = At("loop")
    /\ queue' = Tail(queue)
    /\ failed' = IF raised THEN Append(failed, Cur) ELSE failed
    /\ hist' = [hist EXCEPT
          !.handled = Append(@, <<Cur, IF raised THEN "raised" ELSE "returned">>)]

---------------------------------------------------------------------------
(* process_ticket, up to the environment sequence                          *)

\* _transition without its except clause: a failing tracker call leaves
\* process_ticket and main records the ticket as failed.
transition_propagates(fn, outcome, next) ==
    IF outcome = "call failed"
    THEN /\ Log("raise", 0, fn)
         /\ pc' = At("loop")
         /\ queue' = Tail(queue)
         /\ failed' = Append(failed, Cur)
         /\ hist' = [hist EXCEPT !.handled = Append(@, <<Cur, "raised">>)]
    ELSE Log(fn, 0, outcome) /\ pc' = At(next) /\ UNCHANGED <<queue, failed, hist>>

\* JiraClient._transition(ticket_key, status_name), see TransitionOutcomes:
\* each outcome returns None.
transition(fn, outcome, next) ==
    /\ Log(fn, 0, outcome)
    /\ pc' = At(next)
    /\ UNCHANGED <<queue, failed, hist>>

\* jira.mark_in_progress(ticket.key): best effort, never raises
PtMarkInProgress ==
    /\ pc = At("pt_in_progress")
    /\ transition("jira.mark_in_progress", workflow, "pt_password")
    /\ UNCHANGED <<mem, file, exit_code, cache, conns, tenant, new_users, runs, faults, ops, tracker, ret, peer, workflow, db>>

\* a password is generated and saved whatever the store holds
PtPassword_always_generates ==
    /\ pc = At("pt_password")
    /\ \E pw \in Passwords : StoreWrite(save_monitor_password(mem, Cur, pw))
    /\ hist' = [hist EXCEPT !.gen[Cur] = @ + 1]
    /\ pc' = At("pt_env_check")
    /\ UNCHANGED <<queue, failed, exit_code, cache, conns, tenant, new_users, trace, runs, ops, tracker, ret, peer, workflow, db>>

\* the ticket-level monitoring password: read, or generated and saved
PtPassword ==
    /\ pc = At("pt_password")
    /\ IF get_monitor_password(mem, Cur) = NoneStr
       THEN /\ \E pw \in Passwords : StoreWrite(save_monitor_password(mem, Cur, pw))
            /\ hist' = [hist EXCEPT !.gen[Cur] = @ + 1]
       ELSE UNCHANGED <<mem, file, faults, hist>>
    /\ pc' = At("pt_env_check")
    /\ UNCHANGED <<queue, failed, exit_code, cache, conns, tenant, new_users, trace, runs, ops, tracker, ret, peer, workflow, db>>

\* `if state.is_env_completed(...): return`, else process_env is entered
PtEnvCheck ==
    /\ pc = At("pt_env_check")
    /\ IF is_env_completed(mem, Cur, CurEnv)
       THEN /\ Return(FALSE)
            /\ Log("process_ticket.return", 0, "env already completed")
       ELSE /\ pc' = At("pe_registry")
            /\ UNCHANGED <<queue, failed, trace, hist>>
    /\ UNCHANGED <<mem, file, exit_code, cache, conns, tenant, new_users, runs, faults, ops, tracker, ret, peer, workflow, db>>

---------------------------------------------------------------------------
(* process_env: the five steps                                             *)

\* an exception leaves process_env for process_ticket's `except Exception`
RaiseTarget_swallowed(k) == IF k = 4 THEN AtStep("mark", k) ELSE At("pt_fail")

\* process_env has no try/except of its own: the handler is process_ticket's
RaiseTarget(k) == At("pt_fail")

Raise(fn, k) ==
    /\ Log("raise", k, fn)
    /\ pc' = RaiseTarget(k)

\* the exception is raised by step k's own action, after the approval
RaiseApproved(fn, k) ==
    /\ Raise(fn, k)
    /\ hist' = [hist EXCEPT !.raised[Cur] = k]

\* registry.get(env_name): ValueError for a name not in ENV_FILE_MAP; the
\* cached clients; or EnvDbConfig.from_file, PostgresClient(cfg) and
\* Neo4jClient(cfg) in turn, cached only when all three succeeded
\* EnvRegistry.get(e) with the given outcome: what it constructs and caches
RegistryGet(e, outcome) ==
    IF e \notin ENV_FILE_MAP
    THEN outcome = "ValueError" /\ UNCHANGED <<cache, conns>>
    ELSE IF e \in cache
    THEN outcome = "cached" /\ UNCHANGED <<cache, conns>>
    ELSE \/ /\ outcome = "constructed"
            /\ cache' = cache \cup {e}
            /\ conns' = conns \cup ClientsOf(e)
         \/ /\ outcome = "raised before PostgresClient"
            /\ UNCHANGED <<cache, conns>>
         \/ /\ outcome = "raised in Neo4jClient"
            /\ conns' = conns \cup {<<e, "pg">>}
            /\ UNCHANGED cache

GetOutcomes ==
    {"ValueError", "cached", "constructed", "raised before PostgresClient",
     "raised in Neo4jClient"}

GetReturns(outcome) == outcome \in {"cached", "constructed"}

PeRegistryGet ==
    /\ pc = At("pe_registry")
    /\ \E outcome \in GetOutcomes :
          /\ RegistryGet(CurEnv, outcome)
          /\ IF GetReturns(outcome)
             THEN pc' = At("pe_resolve") /\ UNCHANGED trace
             ELSE Raise("registry.get", 0)
    /\ UNCHANGED <<mem, file, queue, failed, exit_code, tenant, new_users, hist, runs, faults, ops, tracker, ret, peer, workflow, db>>

\* resolve_domain(env_name); on ValueError step 1 is marked done
PeResolveDomain ==
    /\ pc = At("pe_resolve")
    /\ IF CurEnv \in ENV_DOMAIN_MAP
       THEN UNCHANGED <<mem, file, faults>>
       ELSE StoreWrite(mark_step_done(mem, Cur, CurEnv, 1))
    /\ pc' = AtStep("check", 1)
    /\ UNCHANGED <<queue, failed, exit_code, cache, conns, tenant, new_users, trace, hist, runs, ops, tracker, ret, peer, workflow, db>>

AfterStep_no_env_complete(k) ==
    IF k = TOTAL_STEPS THEN At("pt_comment") ELSE AtStep("check", k + 1)

AfterStep_completes_early(k) == IF k >= 4 THEN At("pe_complete") ELSE AtStep("check", k + 1)

AfterStep_skips_step_4(k) ==
    IF k = TOTAL_STEPS THEN At("pe_complete")
    ELSE IF k = 3 THEN AtStep("check", 5) ELSE AtStep("check", k + 1)

\* where the sequencer goes when step k is finished or skipped
AfterStep(k) == IF k = TOTAL_STEPS THEN At("pe_complete") ELSE AtStep("check", k + 1)

NotDoneBranch_unprompted(k) ==
    IF k = 1 THEN AtStep("lookup", 1)
    ELSE IF k = 3 THEN At("s3_ids")
    ELSE AtStep("act", k)

\* the else-branch of `if state.is_step_done(ticket.key, env_name, k)`
NotDoneBranch(k) ==
    IF k = 1 THEN AtStep("lookup", 1)
    ELSE IF k = 3 THEN At("s3_ids")
    ELSE AtStep("confirm", k)

DoneBranch_prompts_again(k, cached) ==
    IF k = 4 THEN AtStep("confirm", k)
    ELSE IF k = 2 /\ cached = NoneRec THEN At("s2_refetch") ELSE AfterStep(k)

DoneBranch_refetch_is_step_2(k, cached) ==
    IF k = 2 /\ cached = NoneRec THEN AtStep("act", 2) ELSE AfterStep(k)

\* the then-branch: skip_step, and for step 2 the tenant from the store or,
\* when none is cached, the fallback re-fetch
DoneBranch(k, cached) ==
    IF k = 2 /\ cached = NoneRec THEN At("s2_refetch") ELSE AfterStep(k)

Check(k) ==
    /\ pc = AtStep("check", k)
    /\ IF is_step_done(mem, Cur, CurEnv, k)
       THEN /\ Log("is_step_done", k, "True")
            /\ tenant' = IF k = 2 THEN get_tenant(mem, Cur, CurEnv) ELSE tenant
            /\ pc' = DoneBranch(k, get_tenant(mem, Cur, CurEnv))
       ELSE /\ pc' = NotDoneBranch(k)
            /\ UNCHANGED <<trace, tenant>>
    /\ UNCHANGED <<mem, file, queue, failed, exit_code, cache, conns, new_users, hist, runs, faults, ops, tracker, ret, peer, workflow, db>>

Confirm_decline_continues(k) ==
    /\ pc = AtStep("confirm", k)
    /\ \/ /\ Log("confirm_step", k, "approved")
          /\ pc' = AtStep("act", k)
          /\ UNCHANGED hist
       \/ /\ Log("confirm_step", k, "declined")
          /\ pc' = AtStep("act", k)
          /\ hist' = [hist EXCEPT !.call.declined = k]
    /\ UNCHANGED <<mem, file, queue, failed, exit_code, cache, conns, tenant, new_users, runs, faults, ops, tracker, ret, peer, workflow, db>>

\* confirm_step: the operator answers the prompt; a decline raises UserSkipped
Confirm(k) ==
    /\ pc = AtStep("confirm", k)
    /\ \/ /\ Log("confirm_step", k, "approved")
          /\ pc' = AtStep("act", k)
          /\ UNCHANGED hist
       \/ /\ Log("confirm_step", k, "declined")
          /\ pc' = At("pt_skipped")
          /\ hist' = [hist EXCEPT !.call.declined = k]
    /\ UNCHANGED <<mem, file, queue, failed, exit_code, cache, conns, tenant, new_users, runs, faults, ops, tracker, ret, peer, workflow, db>>

\* pg.get_user_account_type(u.email) values
AccountTypes == {NoneStr, "credentials", "OAuth"}

NeedsProvisioning_credentials_too(account_type) == account_type \in {NoneStr, "credentials"}

\* `if account_type is None: new_users.append(u)`
NeedsProvisioning(account_type) == account_type = NoneStr

\* step 1: partition ticket.users by account type; no new user: no prompt
S1Lookup ==
    /\ pc = AtStep("lookup", 1)
    /\ \/ \E acct \in [SeqSet(ticket_users(Cur)) -> AccountTypes] :
            LET LookupIsNew(u) == NeedsProvisioning(acct[u])
                new == SelectSeq(ticket_users(Cur), LookupIsNew)
            IN  /\ new_users' = new
                /\ pc' = IF new = <<>> THEN AtStep("mark", 1) ELSE AtStep("confirm", 1)
                /\ hist' = [hist EXCEPT
                       !.call.new = new,
                       !.call.known = {u \in SeqSet(ticket_users(Cur)) : acct[u] # NoneStr}]
                /\ UNCHANGED trace
       \/ /\ Raise("pg.get_user_account_type", 1)
          /\ UNCHANGED <<new_users, hist>>
    /\ UNCHANGED <<mem, file, queue, failed, exit_code, cache, conns, tenant, runs, faults, ops, tracker, ret, peer, workflow, db>>

\* step 1: call_onboard_api_for_user for the next new user
S1Post ==
    /\ pc = AtStep("act", 1)
    /\ \/ /\ Log("call_onboard_api_for_user", 1, Head(new_users))
          /\ new_users' = Tail(new_users)
          /\ pc' = IF Tail(new_users) = <<>> THEN AtStep("mark", 1) ELSE pc
          /\ UNCHANGED hist
       \/ /\ RaiseApproved("call_onboard_api_for_user", 1)
          /\ UNCHANGED new_users
    /\ UNCHANGED <<mem, file, queue, failed, exit_code, cache, conns, tenant, runs, faults, ops, tracker, ret, peer, workflow, db>>

\* step 2: pg.get_tenant(email_domain), LookupError when no row matches
S2Fetch ==
    /\ pc = AtStep("act", 2)
    /\ \/ \E tn \in PgTenants :
            /\ tenant' = tn
            /\ Log("pg.get_tenant", 2, tn.id)
            /\ pc' = AtStep("mark", 2)
            /\ UNCHANGED hist
       \/ /\ RaiseApproved("pg.get_tenant", 2)
          /\ UNCHANGED tenant
    /\ UNCHANGED <<mem, file, queue, failed, exit_code, cache, conns, new_users, runs, faults, ops, tracker, ret, peer, workflow, db>>

\* step 2 already done but no tenant cached: pg.get_tenant again, not saved
S2Refetch ==
    /\ pc = At("s2_refetch")
    /\ \/ \E tn \in PgTenants :
            /\ tenant' = tn
            /\ Log("pg.get_tenant", 2, tn.id)
            /\ pc' = AfterStep(2)
       \/ /\ Raise("pg.get_tenant", 2)
          /\ UNCHANGED tenant
    /\ UNCHANGED <<mem, file, queue, failed, exit_code, cache, conns, new_users, hist, runs, faults, ops, tracker, ret, peer, workflow, db>>

\* what follows state.mark_step_done(ticket.key, env_name, k)
AfterMark(k) ==
    IF k = 2 THEN At("s2_save_tenant")
    ELSE IF k = 3 THEN At("s3_save_user")
    ELSE AfterStep(k)

Mark(k) ==
    /\ pc = AtStep("mark", k)
    /\ StoreWrite(mark_step_done(mem, Cur, CurEnv, k))
    /\ pc' = AfterMark(k)
    /\ UNCHANGED <<queue, failed, exit_code, cache, conns, tenant, new_users, trace, hist, runs, ops, tracker, ret, peer, workflow, db>>

S2SaveTenant ==
    /\ pc = At("s2_save_tenant")
    /\ StoreWrite(save_tenant(mem, Cur, CurEnv, tenant))
    /\ pc' = AfterStep(2)
    /\ UNCHANGED <<queue, failed, exit_code, cache, conns, tenant, new_users, trace, hist, runs, ops, tracker, ret, peer, workflow, db>>

\* step 3: pg.get_tenant_role_ids / get_tenant_group_ids, before the prompt
S3Ids ==
    /\ pc = At("s3_ids")
    /\ \/ pc' = AtStep("confirm", 3) /\ UNCHANGED trace
       \/ Raise("pg.get_tenant_role_ids", 3)
    /\ UNCHANGED <<mem, file, queue, failed, exit_code, cache, conns, tenant, new_users, hist, runs, faults, ops, tracker, ret, peer, workflow, db>>

monitoring_email(t) == IF t = "OPS-1" THEN "monitor+acme@quilr.ai" ELSE "monitor+corp@quilr.ai"

\* step 3: pg.create_monitoring_user -> created (True / False), or raises
S3Create ==
    /\ pc = AtStep("act", 3)
    /\ \E outcome \in CreateOutcomes(db, monitoring_email(Cur)) :
          /\ db' = create_monitoring_user(db, monitoring_email(Cur), outcome)
          /\ IF CreateReturns(outcome)
             THEN /\ Log("pg.create_monitoring_user", 3, Created(outcome))
                  /\ pc' = AtStep("mark", 3)
                  /\ UNCHANGED hist
             ELSE RaiseApproved("pg.create_monitoring_user", 3)
    /\ UNCHANGED <<mem, file, queue, failed, exit_code, cache, conns, tenant, new_users, runs, faults, ops, tracker, ret, peer, workflow>>

S3SaveUser ==
    /\ pc = At("s3_save_user")
    /\ StoreWrite(save_monitoring_user(mem, Cur, CurEnv, monitoring_email(Cur)))
    /\ pc' = AfterStep(3)
    /\ UNCHANGED <<queue, failed, exit_code, cache, conns, tenant, new_users, trace, hist, runs, ops, tracker, ret, peer, workflow, db>>

\* step 4: pg.apply_onboarding_updates(email_domain)
S4Apply ==
    /\ pc = AtStep("act", 4)
    /\ \/ /\ Log("pg.apply_onboarding_updates", 4, "ok")
          /\ pc' = AtStep("mark", 4)
          /\ UNCHANGED hist
       \/ RaiseApproved("pg.apply_onboarding_updates", 4)
    /\ UNCHANGED <<mem, file, queue, failed, exit_code, cache, conns, tenant, new_users, runs, faults, ops, tracker, ret, peer, workflow, db>>

\* step 5: neo4j.merge_tenant(tenant)
S5Merge ==
    /\ pc = AtStep("act", 5)
    /\ \/ /\ Log("neo4j.merge_tenant", 5, tenant.id)
          /\ pc' = AtStep("mark", 5)
          /\ UNCHANGED hist
       \/ RaiseApproved("neo4j.merge_tenant", 5)
    /\ UNCHANGED <<mem, file, queue, failed, exit_code, cache, conns, tenant, new_users, runs, faults, ops, tracker, ret, peer, workflow, db>>

\* state.mark_env_completed: the last statement of process_env
PeComplete ==
    /\ pc = At("pe_complete")
    /\ StoreWrite(mark_env_completed(mem, Cur, CurEnv))
    /\ pc' = At("pt_comment")
    /\ UNCHANGED <<queue, failed, exit_code, cache, conns, tenant, new_users, trace, hist, runs, ops, tracker, ret, peer, workflow, db>>

---------------------------------------------------------------------------
(* process_ticket: the handlers and the wrap-up                            *)

\* except UserSkipped: jira.add_comment("Onboarding paused ..."); return.
\* add_comment raises on a non-2xx answer (raise_for_status)
PtSkipped ==
    /\ pc = At("pt_skipped")
    /\ \/ Log("jira.add_comment", 0, "Onboarding paused") /\ Return(FALSE)
       \/ Log("raise", 0, "jira.add_comment: Onboarding paused") /\ Return(TRUE)
    /\ UNCHANGED <<mem, file, exit_code, cache, conns, tenant, new_users, runs, faults, ops, tracker, ret, peer, workflow, db>>

\* except Exception: jira.add_comment("Onboarding failed ..."); raise
PtFail ==
    /\ pc = At("pt_fail")
    /\ \/ Log("jira.add_comment", 0, "Onboarding failed")
       \/ Log("raise", 0, "jira.add_comment: Onboarding failed")
    /\ Return(TRUE)
    /\ UNCHANGED <<mem, file, exit_code, cache, conns, tenant, new_users, runs, faults, ops, tracker, ret, peer, workflow, db>>

\* wrap up: jira.add_comment("Onboarding completed ...")
PtComment ==
    /\ pc = At("pt_comment")
    /\ \/ /\ Log("jira.add_comment", 0, "Onboarding completed")
          /\ pc' = At("pt_mark_done")
          /\ hist' = [hist EXCEPT !.posted[Cur] = @ + 1]
          /\ UNCHANGED <<queue, failed>>
       \/ /\ Log("raise", 0, "jira.add_comment: Onboarding completed")
          /\ Return(TRUE)
    /\ UNCHANGED <<mem, file, exit_code, cache, conns, tenant, new_users, runs, faults, ops, tracker, ret, peer, workflow, db>>

\* jira.mark_done(ticket.key): best effort, never raises
PtMarkDone ==
    /\ pc = At("pt_mark_done")
    /\ transition("jira.mark_done", workflow, "pt_mark_completed")
    /\ UNCHANGED <<mem, file, exit_code, cache, conns, tenant, new_users, runs, faults, ops, tracker, ret, peer, workflow, db>>

PtMarkCompleted ==
    /\ pc = At("pt_mark_completed")
    /\ StoreWrite(mark_completed(mem, Cur))
    /\ Log("state.mark_completed", 0, "ok")
    /\ Return(FALSE)
    /\ UNCHANGED <<exit_code, cache, conns, tenant, new_users, runs, ops, tracker, ret, peer, workflow, db>>

\* the process is stopped (killed, power loss) between two operations
Stop ==
    /\ pc.ph # "off"
    /\ pc' = At("off")
    /\ mem' = EmptyDict
    /\ queue' = <<>>
    /\ failed' = <<>>
    /\ exit_code' = NoExit
    /\ cache' = {}
    /\ conns' = {}
    /\ tenant' = NoneRec
    /\ new_users' = <<>>
    /\ trace' = <<>>
    /\ hist' = [hist EXCEPT !.call = NoCall, !.work = <<>>, !.handled = <<>>]
    /\ UNCHANGED <<file, runs, faults, ops, tracker, ret, peer, workflow, db>>

Next ==
    \/ Start
    \/ ResolveExplicit
    \/ ResolveUnparsable
    \/ ResolvePending
    \/ ResolveRaises
    \/ LoopDone
    \/ LoopSkip
    \/ LoopProcess
    \/ PtMarkInProgress
    \/ PtPassword
    \/ PtEnvCheck
    \/ PeRegistryGet
    \/ PeResolveDomain
    \/ \E k \in Steps : Check(k)
    \/ \E k \in Steps : Confirm(k)
    \/ S1Lookup
    \/ S1Post
    \/ S2Fetch
    \/ S2Refetch
    \/ \E k \in Steps : Mark(k)
    \/ S2SaveTenant
    \/ S3Ids
    \/ S3Create
    \/ S3SaveUser
    \/ S4Apply
    \/ S5Merge
    \/ PeComplete
    \/ PtSkipped
    \/ PtFail
    \/ PtComment
    \/ PtMarkDone
    \/ PtMarkCompleted
    \/ Stop

Spec == Init /\ [][Next]_vars

\* a step of a running process other than its being stopped from outside:
\* the code is sequential, every call returns or raises, every prompt is
\* answered
Progress ==
    /\ pc.ph # "off"
    /\ Next
    /\ pc'.ph # "off" \/ exit_code' # NoExit

\* the tool run on the one-user ticket OPS-2, each run going on until it
\* exits or is stopped
\* one ticket on a tracker whose transitions may fail in each of the ways
\* _transition distinguishes
SpecTracker == InitFor({"OPS-1"}, TransitionOutcomes, {Onboardable}) /\ [][Next]_vars

SpecOne == InitWith({"OPS-2"}) /\ [][Next]_vars /\ WF_vars(Progress)

\* the tool run on a tracker with two tickets, one of them naming an
\* environment the registry does not know
SpecBatch == InitWith({"OPS-2", "OPS-3"}) /\ [][Next]_vars /\ WF_vars(Progress)

---------------------------------------------------------------------------
(* SpecStore: the StateManager API on its own                              *)

\* what a StateManager call of this instance leaves alone: the flow of main,
\* and the other instance
FlowVars ==
    <<pc, queue, failed, exit_code, cache, conns, tenant, new_users, trace, hist, tracker, peer, workflow, db>>

StoreSteps == 1..MaxStoreStep

\* the ticket the mutators write; queries also ask for tickets with no record
StoreTickets == {"OPS-1"}
QueryTickets == {"OPS-1", "OPS-2"}

\* the values the callers pass for a password and for (ticket, env) of the
\* tenant and the monitoring user
StorePasswords == {"pw-1"}
StoreEnv == "UAE POC"

\* the all_env_names lists a caller can pass
EnvLists ==
    {<<>>} \cup {<<e>> : e \in Envs} \cup {w \in Envs \X Envs : w[1] # w[2]}

NoRet == [fn |-> "none"]

\* a mutator call returns: what was called, with which arguments, and for
\* mark_step_done whether the step was already in the list
Call(fn, t, e, step, val, noop) ==
    [fn |-> fn, ticket |-> t, env |-> e, step |-> step, val |-> val, noop |-> noop]

Mutate(s2, call) ==
    /\ ops < MaxStoreOps
    /\ ops' = ops + 1
    /\ StoreWrite(s2)
    /\ ret' = call
    /\ UNCHANGED <<FlowVars, runs>>

\* a StateManager call raised KeyError: nothing was changed or saved
KeyError(fn) == [fn |-> "KeyError", in |-> fn]

\* a mutator whose dictionary accesses can raise before anything is changed
MutateOrRaise(raises, s2, call) ==
    IF raises
    THEN /\ ops < MaxStoreOps
         /\ ops' = ops + 1
         /\ ret' = KeyError(call.fn)
         /\ UNCHANGED <<mem, file, faults, FlowVars, runs>>
    ELSE Mutate(s2, call)

SmMarkStepDone ==
    \E t \in StoreTickets, e \in Envs, k \in StoreSteps :
        MutateOrRaise(mark_step_done_raises(mem, t, e),
                      mark_step_done(mem, t, e, k),
                      Call("mark_step_done", t, e, k, "", is_step_done(mem, t, e, k)))

SmSaveTenant ==
    \E t \in StoreTickets, tn \in PgTenants :
        MutateOrRaise(env_raises(mem, t),
                      save_tenant(mem, t, StoreEnv, tn),
                      Call("save_tenant", t, StoreEnv, 0, tn.id, FALSE))

SmSaveMonitoringUser ==
    \E t \in StoreTickets :
        MutateOrRaise(env_raises(mem, t),
                      save_monitoring_user(mem, t, StoreEnv, monitoring_email(t)),
                      Call("save_monitoring_user", t, StoreEnv, 0, monitoring_email(t), FALSE))

SmSaveMonitorPassword ==
    \E t \in StoreTickets, pw \in StorePasswords :
        Mutate(save_monitor_password(mem, t, pw),
               Call("save_monitor_password", t, "", 0, pw, FALSE))

SmMarkEnvCompleted ==
    \E t \in StoreTickets, e \in Envs :
        MutateOrRaise(env_raises(mem, t),
                      mark_env_completed(mem, t, e),
                      Call("mark_env_completed", t, e, 0, "", FALSE))

SmMarkCompleted ==
    \E t \in StoreTickets :
        Mutate(mark_completed(mem, t), Call("mark_completed", t, "", 0, "", FALSE))

\* state.is_completed(ticket_key, all_env_names)
SmIsCompleted ==
    /\ \E t \in QueryTickets, names \in EnvLists :
        ret' = [fn |-> "is_completed", ticket |-> t, names |-> names,
                val |-> is_completed(mem, t, names)]
    /\ UNCHANGED <<mem, file, faults, ops, runs, FlowVars>>

\* the process restarts: a new StateManager loads the state file
SmReload ==
    /\ ops < MaxStoreOps
    /\ ops' = ops + 1
    /\ mem' = Load(file)
    /\ ret' = [fn |-> "_load"]
    /\ UNCHANGED <<file, faults, runs, FlowVars>>

NextStore ==
    \/ SmMarkStepDone
    \/ SmSaveTenant
    \/ SmSaveMonitoringUser
    \/ SmSaveMonitorPassword
    \/ SmMarkEnvCompleted
    \/ SmMarkCompleted
    \/ SmIsCompleted
    \/ SmReload

SpecStore == Init /\ [][NextStore]_vars

---------------------------------------------------------------------------
(* SpecLegacy: a StateManager constructed over a state file that parses as *)
(* JSON but was written by another version of the tool or edited by hand   *)

\* a well-formed environment record
LegacyEnv ==
    [steps_done |-> <<1>>, tenant |-> TenantRecord("tn-1"),
     monitoring_user |-> [email |-> "monitor+acme@quilr.ai"],
     completed |-> FALSE, completed_at |-> NoneStr]

LegacyTicket(envrec) ==
    [started_at |-> Now, monitor_password |-> "pw-1",
     environments |-> Put(EmptyDict, StoreEnv, envrec),
     completed |-> FALSE, completed_at |-> NoneStr]

LegacyShapes ==
    {"current", "extra_fields", "no_environments", "empty_env", "no_steps_done",
     "tenant_without_id", "user_without_email"}

\* the record of ticket OPS-1 in the file, by shape
LegacyRecord(shape) ==
    CASE shape = "current" -> LegacyTicket(LegacyEnv)
      [] shape = "extra_fields" ->
            [started_at |-> Now, monitor_password |-> "pw-1", schema |-> "2",
             environments |-> Put(EmptyDict, StoreEnv,
                [steps_done |-> <<1>>, tenant |-> TenantRecord("tn-1"),
                 monitoring_user |-> [email |-> "monitor+acme@quilr.ai"],
                 completed |-> FALSE, completed_at |-> NoneStr, region |-> "uae"]),
             completed |-> FALSE, completed_at |-> NoneStr]
      [] shape = "no_environments" -> [started_at |-> Now, completed |-> FALSE]
      [] shape = "empty_env" -> LegacyTicket(EmptyDict)
      [] shape = "no_steps_done" -> LegacyTicket([completed |-> FALSE])
      [] shape = "tenant_without_id" ->
            LegacyTicket([steps_done |-> <<1, 2>>, tenant |-> [name |-> "acme.com"],
                          completed |-> FALSE])
      [] shape = "user_without_email" ->
            LegacyTicket([steps_done |-> <<1, 2, 3>>, monitoring_user |-> [name |-> "monitor"],
                          completed |-> FALSE])

LegacyStore(shape) == Put(EmptyDict, "OPS-1", LegacyRecord(shape))

InitLegacy ==
    /\ \E shape \in LegacyShapes :
          /\ file = FileJson(LegacyStore(shape))
          /\ mem = LegacyStore(shape)
    /\ pc = At("off")
    /\ queue = <<>>
    /\ failed = <<>>
    /\ exit_code = NoExit
    /\ cache = {}
    /\ conns = {}
    /\ tenant = NoneRec
    /\ new_users = <<>>
    /\ trace = <<>>
    /\ hist = [call |-> NoCall, raised |-> [t \in Tickets |-> 0],
               work |-> <<>>, handled |-> <<>>, gen |-> [t \in Tickets |-> 0],
               posted |-> [t \in Tickets |-> 0],
               loaded |-> "json"]
    /\ runs = 0
    /\ faults = 0
    /\ ops = 0
    /\ tracker = {"OPS-1"}
    /\ ret = NoRet
    /\ peer = EmptyDict
    /\ workflow = "transitioned"
    /\ db = Database(Onboardable)

\* a read-only query returns val, or raises KeyError
\* a query written with _ticket() instead of .get(): asking creates the record
Query_inserts_default(fn, raises, val) ==
    /\ ret' = IF raises THEN KeyError(fn) ELSE [fn |-> fn, val |-> val]
    /\ mem' = WithTicket(mem, "OPS-2")
    /\ UNCHANGED <<file, faults, ops, runs, FlowVars>>

Query(fn, raises, val) ==
    /\ ret' = IF raises THEN KeyError(fn) ELSE [fn |-> fn, val |-> val]
    /\ UNCHANGED <<mem, file, faults, ops, runs, FlowVars>>

SmIsStepDone ==
    \E t \in QueryTickets, e \in Envs, k \in StoreSteps :
        Query("is_step_done", FALSE, is_step_done(mem, t, e, k))

SmGetStepsDone ==
    \E t \in QueryTickets, e \in Envs :
        Query("get_steps_done", FALSE, get_steps_done(mem, t, e))

SmGetTenant ==
    \E t \in QueryTickets, e \in Envs :
        Query("get_tenant", get_tenant_raises(mem, t, e), get_tenant(mem, t, e))

SmGetMonitoringUser ==
    \E t \in QueryTickets, e \in Envs :
        Query("get_monitoring_user", get_monitoring_user_raises(mem, t, e),
              get_monitoring_user(mem, t, e))

SmGetMonitorPassword ==
    \E t \in QueryTickets : Query("get_monitor_password", FALSE, get_monitor_password(mem, t))

SmIsEnvCompleted ==
    \E t \in QueryTickets, e \in Envs :
        Query("is_env_completed", FALSE, is_env_completed(mem, t, e))

\* started_at(ticket_key)
started_at(s, t) == Get(Get(s, t, EmptyDict), "started_at", NoneStr)

SmStartedAt ==
    /\ \E t \in QueryTickets :
          ret' = [fn |-> "started_at", ticket |-> t, val |-> started_at(mem, t)]
    /\ UNCHANGED <<mem, file, faults, ops, runs, FlowVars>>

NextLegacy ==
    \/ SmMarkStepDone
    \/ SmSaveTenant
    \/ SmSaveMonitoringUser
    \/ SmSaveMonitorPassword
    \/ SmMarkEnvCompleted
    \/ SmMarkCompleted
    \/ SmIsStepDone
    \/ SmGetStepsDone
    \/ SmGetTenant
    \/ SmGetMonitoringUser
    \/ SmGetMonitorPassword
    \/ SmIsEnvCompleted
    \/ SmIsCompleted
    \/ SmStartedAt
    \/ SmReload

SpecLegacy == InitLegacy /\ [][NextLegacy]_vars

\* the queries of the StateManager between mutators that create ticket and
\* environment records, from an empty store
NextQueries ==
    \/ SmMarkEnvCompleted
    \/ SmMarkCompleted
    \/ SmSaveMonitorPassword
    \/ SmIsStepDone
    \/ SmGetStepsDone
    \/ SmGetTenant
    \/ SmGetMonitoringUser
    \/ SmGetMonitorPassword
    \/ SmIsEnvCompleted
    \/ SmIsCompleted
    \/ SmStartedAt
    \/ SmReload

SpecQueries == Init /\ [][NextQueries]_vars

---------------------------------------------------------------------------
(* SpecRegistry: the EnvRegistry of one run, called for a sequence of      *)
(* environments as process_env does for the tickets of the run             *)

RegistryEnvs == ENV_FILE_MAP \cup {"QA POC"}

RgGet ==
    /\ ops < MaxStoreOps
    /\ ops' = ops + 1
    /\ \E e \in RegistryEnvs, outcome \in GetOutcomes :
          /\ RegistryGet(e, outcome)
          /\ ret' = [fn |-> "registry.get", env |-> e, outcome |-> outcome]
    /\ UNCHANGED <<mem, file, faults, runs, pc, queue, failed, exit_code, tenant,
                   new_users, trace, hist, tracker, peer, workflow, db>>

\* registry.close_all() in main's finally block
RgCloseAll ==
    /\ ops < MaxStoreOps
    /\ ops' = ops + 1
    /\ \E raising \in SUBSET UNION {ClientsOf(e) : e \in cache} :
          conns' = close_all(cache, conns, raising)
    /\ cache' = {}
    /\ ret' = [fn |-> "registry.close_all"]
    /\ UNCHANGED <<mem, file, faults, runs, pc, queue, failed, exit_code, tenant,
                   new_users, trace, hist, tracker, peer, workflow, db>>

\* the next run of the tool: main constructs a new EnvRegistry()
RgNewRun ==
    /\ runs < MaxRuns
    /\ runs' = runs + 1
    /\ ops' = 0
    /\ cache' = {}
    /\ conns' = {}
    /\ ret' = [fn |-> "EnvRegistry"]
    /\ UNCHANGED <<mem, file, faults, pc, queue, failed, exit_code, tenant,
                   new_users, trace, hist, tracker, peer, workflow, db>>

NextRegistry == RgGet \/ RgCloseAll \/ RgNewRun

SpecRegistry == Init /\ [][NextRegistry]_vars

---------------------------------------------------------------------------
(* SpecShared: two instances of the tool on one state file. `mem` is the   *)
(* store of the instance that takes the next step, `peer` the store of the *)
(* other one; each was loaded by its own StateManager() and is saved whole *)
(* by its own _save().                                                     *)

\* the scheduler lets the other instance run
Switch ==
    /\ mem # peer
    /\ mem' = peer
    /\ peer' = mem
    /\ ret' = [fn |-> "switch"]
    /\ UNCHANGED <<file, faults, ops, runs, pc, queue, failed, exit_code, cache, conns,
                   tenant, new_users, trace, hist, tracker, workflow, db>>

NextShared ==
    \/ SmMarkStepDone
    \/ SmMarkEnvCompleted
    \/ SmReload
    \/ Switch

SpecShared == Init /\ [][NextShared]_vars

---------------------------------------------------------------------------
(* SpecPg: PostgresClient on its own                                       *)

\* UPDATE <table> SET ... WHERE "name" = domain, inside the open transaction
Update(d, table, domain) ==
    [d EXCEPT !.working = [r \in DbKeys |->
        IF r = <<table, domain>> /\ @[r] # "absent" THEN "set" ELSE @[r]]]

\* where apply_onboarding_updates can leave its try block
ApplyOutcomes ==
    {"committed", "tenant UPDATE raised", "subscriber UPDATE raised", "commit raised"}

\* apply_onboarding_updates(email_domain): both UPDATEs on one cursor, then
\* commit; on any exception rollback and re-raise
apply_onboarding_updates(d, domain, outcome) ==
    LET d1 == Update(d, "tenant", domain)
        d2 == Update(d1, "subscriber", domain)
    IN  CASE outcome = "tenant UPDATE raised" -> rollback(d)
          [] outcome = "subscriber UPDATE raised" -> rollback(d1)
          [] outcome = "commit raised" -> rollback(d2)
          [] OTHER -> commit(d2)

PgApplyOnboardingUpdates ==
    /\ ops < MaxStoreOps
    /\ ops' = ops + 1
    /\ \E domain \in PgDomains, outcome \in ApplyOutcomes :
          /\ db' = apply_onboarding_updates(db, domain, outcome)
          /\ ret' = [fn |-> "pg.apply_onboarding_updates", domain |-> domain,
                     raised |-> outcome # "committed", at |-> outcome]
    /\ UNCHANGED <<mem, file, faults, runs, pc, queue, failed, exit_code, cache, conns,
                   tenant, new_users, trace, hist, tracker, peer, workflow>>

PgCreateMonitoringUser ==
    /\ ops < MaxStoreOps
    /\ ops' = ops + 1
    /\ \E email \in MonEmails :
          \E outcome \in CreateOutcomes(db, email) :
             /\ db' = create_monitoring_user(db, email, outcome)
             /\ ret' = [fn |-> "pg.create_monitoring_user", email |-> email,
                        raised |-> ~CreateReturns(outcome), at |-> outcome]
    /\ UNCHANGED <<mem, file, faults, runs, pc, queue, failed, exit_code, cache, conns,
                   tenant, new_users, trace, hist, tracker, peer, workflow>>

NextPg == PgApplyOnboardingUpdates \/ PgCreateMonitoringUser

\* the tables' contents before the client connects: any rows, and at most one
\* user per monitoring email
PgContents ==
    {Content(rows, users) : rows \in [PgRows -> RowStates], users \in [PgUsers -> 0..1]}

\* one PostgresClient on a database holding any rows
SpecPg == InitFor({"OPS-1"}, {"transitioned"}, PgContents) /\ [][NextPg]_vars

---------------------------------------------------------------------------
(* SpecExtract: extract_customer_details, src/qonboard/clients/extractor.py *)

\* Python strings are sequences of characters; a value of an item of the
\* LLM's "customers" array is a string, JSON null, or the key is missing
Str(chars) == [kind |-> "str", s |-> chars]
Missing == [kind |-> "missing", s |-> <<>>]
Null == [kind |-> "null", s |-> <<>>]
LlmValues == {Missing, Null, Str(<<" ">>), Str(<<" ", "A", " ">>)}
LlmItems == [firstname : LlmValues, lastname : LlmValues, email : LlmValues]
LlmAnswers == UNION {[1..n -> LlmItems] : n \in 0..MaxCustomers}

\* str.strip()
RECURSIVE lstrip(_)
lstrip(str) == IF str # <<>> /\ Head(str) = " " THEN lstrip(Tail(str)) ELSE str
RECURSIVE rstrip(_)
rstrip(str) ==
    IF str # <<>> /\ str[Len(str)] = " " THEN rstrip(SubSeq(str, 1, Len(str) - 1)) ELSE str
strip(str) == rstrip(lstrip(str))

\* str.lower()
lower(str) == [i \in 1..Len(str) |-> IF str[i] = "A" THEN "a" ELSE str[i]]

\* item.get(key, ""): the value, "" when the key is missing
ItemGet(item, key) == IF item[key].kind = "missing" THEN Str(<<>>) ELSE item[key]

\* .strip() on None raises AttributeError
ItemRaises(item) == \E key \in {"firstname", "lastname", "email"} : item[key].kind = "null"

lastname_or_blank_keeps_empty(lastname) == lastname

\* lastname or " "
lastname_or_blank(lastname) == IF lastname = <<>> THEN <<" ">> ELSE lastname

\* the fields of one item after strip / lower
Fields(item) ==
    [firstname |-> strip(ItemGet(item, "firstname").s),
     lastname |-> strip(ItemGet(item, "lastname").s),
     email |-> lower(strip(ItemGet(item, "email").s))]

\* `if not firstname or not email: continue`
Skipped(item) == Fields(item).firstname = <<>> \/ Fields(item).email = <<>>

ExtractedDetails(item) ==
    [firstname |-> Fields(item).firstname,
     lastname |-> lastname_or_blank(Fields(item).lastname),
     email |-> Fields(item).email]

\* the for loop over raw_list: the results appended so far
RECURSIVE Results(_)
Results(raw_list) ==
    IF raw_list = <<>> THEN <<>>
    ELSE LET init == SubSeq(raw_list, 1, Len(raw_list) - 1)
             item == raw_list[Len(raw_list)]
         IN  IF Skipped(item) THEN Results(init)
             ELSE Append(Results(init), ExtractedDetails(item))

\* extract_customer_details(description, az_cfg), given whether the
\* description is blank and the "customers" array the LLM answered with
extract_customer_details(blank, raw_list) ==
    IF blank THEN [raised |-> "ValueError", results |-> <<>>]
    ELSE IF raw_list = <<>> THEN [raised |-> "ValueError", results |-> <<>>]
    ELSE IF \E i \in 1..Len(raw_list) : ItemRaises(raw_list[i])
    THEN [raised |-> "AttributeError", results |-> <<>>]
    ELSE IF Results(raw_list) = <<>> THEN [raised |-> "ValueError", results |-> <<>>]
    ELSE [raised |-> "none", results |-> Results(raw_list)]

ExExtract ==
    /\ ret.fn = "none"
    /\ \E blank \in BOOLEAN, raw_list \in LlmAnswers :
          ret' = [fn |-> "extract_customer_details", blank |-> blank, raw |-> raw_list,
                  out |-> extract_customer_details(blank, raw_list)]
    /\ UNCHANGED <<mem, file, faults, runs, ops, pc, queue, failed, exit_code, cache, conns,
                   tenant, new_users, trace, hist, tracker, peer, workflow, db>>

NextExtract == ExExtract

SpecExtract == Init /\ [][NextExtract]_vars

---------------------------------------------------------------------------
(* Reading the trace of the current process_ticket call                    *)

\* the ticket and environment of the current (or last) process_ticket call
T == hist.call.ticket
E == ticket_environment(T)
InCall == T # ""

\* step k's own external action
StepAction(k) ==
    CASE k = 1 -> "call_onboard_api_for_user"
      [] k = 2 -> "pg.get_tenant"
      [] k = 3 -> "pg.create_monitoring_user"
      [] k = 4 -> "pg.apply_onboarding_updates"
      [] k = 5 -> "neo4j.merge_tenant"

MutatingSteps == {1, 3, 4, 5}

\* event i is an invocation of fn for step k (it returned, or it raised)
IsCall(i, fn, k) ==
    /\ trace[i].k = k
    /\ \/ trace[i].op = fn
       \/ trace[i].op = "raise" /\ trace[i].arg = fn

Invoked(fn, k) == \E i \in 1..Len(trace) : IsCall(i, fn, k)
Prompted(k) == \E i \in 1..Len(trace) : trace[i].op = "confirm_step" /\ trace[i].k = k
Approved(k) == \E i \in 1..Len(trace) : trace[i] = Ev("confirm_step", k, "approved")
FoundDone(k) == \E i \in 1..Len(trace) : trace[i] = Ev("is_step_done", k, "True")
Has(op) == \E i \in 1..Len(trace) : trace[i].op = op
HasEv(op, arg) == \E i \in 1..Len(trace) : trace[i].op = op /\ trace[i].arg = arg

---------------------------------------------------------------------------
(* C1 .. C10                                                               *)

\* C1 (as claimed): a step found done when the sequencer reaches it gets
\* neither the operator prompt nor its own action, pg.get_tenant for step 2
\* included.
C1_Claim ==
    \A k \in Steps :
        FoundDone(k) => ~Prompted(k) /\ ~Invoked(StepAction(k), k)

\* C1 (amended): a step found done is never prompted for and its action is
\* not invoked, except that for step 2 pg.get_tenant is called as the
\* fallback re-fetch, and then only when the store holds no cached tenant.
C1_Amended ==
    \A k \in Steps :
        FoundDone(k) =>
            /\ ~Prompted(k)
            /\ k # 2 => ~Invoked(StepAction(k), k)
            /\ k = 2 /\ Invoked(StepAction(k), k) =>
                   /\ ~hist.call.start_tenant
                   /\ get_tenant(mem, T, E) = NoneRec

\* a resumed call skipped steps 1 and 2, re-fetched the tenant and went on
C1_Witness ==
    /\ FoundDone(1) /\ FoundDone(2) /\ HasEv("pg.get_tenant", "tn-1")
    /\ Approved(3)

\* C2: every mutating external call of a step (Onboard API POST,
\* create_monitoring_user, apply_onboarding_updates, merge_tenant) comes
\* after an approval of that same step in the same call.
C2_ApprovalBeforeMutation ==
    \A i \in 1..Len(trace) : \A k \in MutatingSteps :
        IsCall(i, StepAction(k), k) =>
            \E j \in 1..(i - 1) : trace[j] = Ev("confirm_step", k, "approved")

C2_Witness ==
    /\ Invoked("call_onboard_api_for_user", 1)
    /\ Invoked("pg.create_monitoring_user", 3)
    /\ Invoked("pg.apply_onboarding_updates", 4)
    /\ Invoked("neo4j.merge_tenant", 5)

\* the steps prompted for in this call, in order
RECURSIVE PromptsOf(_)
PromptsOf(q) ==
    IF q = <<>> THEN <<>>
    ELSE IF Head(q).op = "confirm_step" THEN <<Head(q).k>> \o PromptsOf(Tail(q))
    ELSE PromptsOf(Tail(q))

IsPrefix(p, q) == Len(p) <= Len(q) /\ \A i \in 1..Len(p) : p[i] = q[i]

\* C3 (as claimed): a call that starts from a record left by an interrupted
\* run with exactly steps 1 and 2 done prompts only for 3, 4, 5, in that
\* order, and never calls pg.get_tenant: steps 3 and 5 use the stored tenant.
C3_Claim ==
    hist.call.start_done = {1, 2} =>
        /\ IsPrefix(PromptsOf(trace), <<3, 4, 5>>)
        /\ ~Invoked("pg.get_tenant", 2)
        /\ pc \in {At("s3_ids"), AtStep("act", 3), AtStep("act", 5)} =>
               tenant = get_tenant(mem, T, E)

\* C4 (as claimed): a step once reported done is reported done after every
\* later StateManager operation, a restart that reloads the file included.
C4_Claim ==
    [][\A t \in Tickets, e \in Envs :
          \A k \in get_steps_done(mem, t, e) : is_step_done(mem', t, e, k)]_vars

\* C4 (amended): within a run the done set never loses a member; a restart
\* reports exactly what the state file holds, so a step is lost only by a
\* reload of a file that does not hold it (failed save, unparsable file).
C4_Amended ==
    [][\A t \in Tickets, e \in Envs :
          \A k \in get_steps_done(mem, t, e) :
              \/ is_step_done(mem', t, e, k)
              \/ /\ ret'.fn = "_load"
                 /\ mem' = Load(file)
                 /\ ~is_step_done(Load(file), t, e, k)]_vars

\* a restart after two marks and a mark on top of a done step: all kept
C4_Witness ==
    /\ ret.fn = "_load"
    /\ ops = MaxStoreOps
    /\ \E t \in Tickets, e \in Envs :
          Len(Get(EnvGet(mem, t, e), "steps_done", <<>>)) = 2

\* the stored ticket-level completed flag
TicketFlag(s, t) == Get(Get(s, t, EmptyDict), "completed", FALSE)

\* the step whose approved action raised in this call (0: none)
RaisedAt == IF InCall THEN hist.raised[T] ELSE 0

\* in the call where the approved action of step k raised: k is not done,
\* nothing of a later step ran, the environment and the ticket are not
\* complete, control is in process_ticket's handler or back in main with the
\* ticket in the failed list
C5_FailedStep ==
    \A k \in Steps :
        RaisedAt = k =>
            /\ ~is_step_done(mem, T, E, k)
            /\ file.kind = "json" => ~is_step_done(file.data, T, E, k)
            /\ \A i \in 1..Len(trace) : trace[i].k <= k
            /\ ~is_env_completed(mem, T, E)
            /\ ~TicketFlag(mem, T)
            /\ ~HasEv("jira.add_comment", "Onboarding completed")
            /\ pc.ph \in {"pt_fail", "loop", "off"}
            /\ pc.ph \in {"loop", "off"} => InSeq(T, failed)

\* C5 (as claimed): ..., and in the next call for the ticket step k gets
\* done only by being prompted for and executed again.
C5_Claim ==
    /\ C5_FailedStep
    /\ \A k \in Steps :
          InCall /\ hist.call.prev_raised = k /\ is_step_done(mem, T, E, k) =>
              ~FoundDone(k) /\ Approved(k) /\ Invoked(StepAction(k), k)

\* C5 (amended): ..., and in the next call step k is not skipped as done;
\* it gets done only by being prompted for and executed again, except that
\* step 1 is marked done with no prompt and no POST when by then no user of
\* the ticket needs provisioning.
C5_Amended ==
    /\ C5_FailedStep
    /\ \A k \in Steps :
          InCall /\ hist.call.prev_raised = k /\ is_step_done(mem, T, E, k) =>
              /\ ~FoundDone(k)
              /\ \/ Approved(k) /\ Invoked(StepAction(k), k)
                 \/ k = 1 /\ ~Prompted(1) /\ ~Invoked(StepAction(1), 1)

\* step 4 raised in the previous call and was prompted for, executed and
\* marked done in this one
C5_Witness ==
    /\ InCall /\ hist.call.prev_raised = 4
    /\ FoundDone(3) /\ Approved(4) /\ HasEv("pg.apply_onboarding_updates", "ok")
    /\ is_step_done(mem, T, E, 4)

\* C6: after the operator declines step k in a call that started with no
\* record for the ticket, the store reports exactly steps 1..k-1 done, the
\* environment and the ticket not complete, and no mutating action of step k
\* or of a later step was issued; the state file says the same when no save
\* failed.
C6_DeclineKeepsPrefix ==
    \A k \in Steps :
        InCall /\ hist.call.start_empty /\ hist.call.declined = k =>
            /\ get_steps_done(mem, T, E) = 1..(k - 1)
            /\ ~is_env_completed(mem, T, E)
            /\ ~TicketFlag(mem, T)
            /\ \A j \in MutatingSteps : j >= k => ~Invoked(StepAction(j), j)
            /\ ~Has("jira.mark_done") /\ ~Has("state.mark_completed")
            /\ faults = 0 =>
                  /\ file.kind = "json"
                  /\ get_steps_done(file.data, T, E) = 1..(k - 1)
                  /\ ~is_env_completed(file.data, T, E)
                  /\ ~TicketFlag(file.data, T)

\* step 4 was declined after steps 1..3 ran in the same call, and the call
\* is over
C6_Witness ==
    /\ InCall /\ hist.call.start_empty /\ hist.call.declined = 4
    /\ Invoked(StepAction(1), 1) /\ Invoked(StepAction(3), 3)
    /\ get_steps_done(mem, T, E) = {1, 2, 3}
    /\ pc = At("off") /\ exit_code = 0

\* how many events of the trace are this one
RECURSIVE Count(_, _)
Count(tr, ev) ==
    IF tr = <<>> THEN 0
    ELSE (IF Head(tr) = ev THEN 1 ELSE 0) + Count(Tail(tr), ev)

\* process_ticket is over for the ticket of the current call
Returned == InCall /\ pc.ph \in {"loop", "off"}

\* C7 (as claimed): whenever the operator declined a step of the ticket,
\* process_ticket has posted exactly one "Onboarding paused" comment and
\* returned without raising, and the ticket is not in main's failed list.
C7_Claim ==
    Returned /\ hist.call.declined # 0 =>
        /\ Count(trace, Ev("jira.add_comment", 0, "Onboarding paused")) = 1
        /\ ~Has("raise")
        /\ ~InSeq(T, failed)
        /\ pc = At("off") => exit_code = 0

\* the run found the environment already complete: main skipped the ticket,
\* or process_ticket returned early
StartedComplete == Has("main.skip_completed") \/ Has("process_ticket.return")

\* C8 (as claimed): a run that finds the ticket's environment already
\* complete leaves the ticket finalized: once the run is done with the
\* ticket, the ticket-level completed flag is set.
C8_Claim ==
    Returned /\ StartedComplete => TicketFlag(mem, T)

\* the events of process_ticket's wrap-up
IsWrapUp(ev) ==
    \/ ev = Ev("jira.add_comment", 0, "Onboarding completed")
    \/ ev = Ev("raise", 0, "jira.add_comment: Onboarding completed")
    \/ ev.op \in {"jira.mark_done", "state.mark_completed"}

\* C9: the completion comment, jira.mark_done and state.mark_completed are
\* issued only with the environment marked complete in the store; mark_done
\* comes right after the posted comment and mark_completed right after
\* mark_done; when the comment raises, neither of the two happens.
C9_FinalizeOnlyComplete ==
    /\ pc.ph \in {"pt_comment", "pt_mark_done", "pt_mark_completed"} =>
           is_env_completed(mem, Cur, CurEnv)
    /\ \A i \in 1..Len(trace) :
        /\ IsWrapUp(trace[i]) => is_env_completed(mem, T, E)
        /\ trace[i].op = "jira.mark_done" =>
               i > 1 /\ trace[i - 1] = Ev("jira.add_comment", 0, "Onboarding completed")
        /\ trace[i].op = "state.mark_completed" =>
               i > 2 /\ trace[i - 1].op = "jira.mark_done"
    /\ HasEv("raise", "jira.add_comment: Onboarding completed") =>
           /\ ~Has("jira.mark_done")
           /\ ~Has("state.mark_completed")
           /\ pc.ph \in {"loop", "off"} /\ InSeq(T, failed)
    /\ Count(trace, Ev("jira.add_comment", 0, "Onboarding completed")) <= 1

\* all five steps ran in this call and the ticket was finalized
C9_Witness ==
    /\ InCall /\ Approved(5) /\ Has("state.mark_completed")
    /\ trace[Len(trace) - 1].op = "jira.mark_done"
    /\ TicketFlag(mem, T)

\* C10: is_completed(ticket, names) is true exactly when every listed name
\* has a record under the ticket whose completed flag is true; the
\* ticket-level flag plays no part.
C10_IsCompletedIffAll ==
    ret.fn = "is_completed" =>
        LET envs == IF ret.ticket \in DOMAIN mem THEN mem[ret.ticket].environments
                    ELSE EmptyDict
        IN  ret.val = (\A i \in 1..Len(ret.names) :
                          /\ ret.names[i] \in DOMAIN envs
                          /\ envs[ret.names[i]].completed = TRUE)

\* the ticket flag is set, one listed environment is complete, the other has
\* no record: the answer is False
C10_Witness ==
    /\ ret.fn = "is_completed" /\ ret.ticket = "OPS-1"
    /\ ret.names = <<"UAE POC", "IND POC">>
    /\ TicketFlag(mem, "OPS-1")
    /\ is_env_completed(mem, "OPS-1", "UAE POC")
    /\ "IND POC" \notin DOMAIN mem["OPS-1"].environments
    /\ ret.val = FALSE

\* a call that started with no record for the ticket, in which no prompt was
\* declined and nothing raised
Happy == InCall /\ hist.call.start_empty /\ hist.call.declined = 0 /\ ~Has("raise")

\* the steps_done list as stored, in insertion order
StepsList(s, t, e) == Get(EnvGet(s, t, e), "steps_done", <<>>)

\* C11: from an empty store, with every prompt approved and every call
\* succeeding, the steps are marked done in the order 1, 2, 3, 4, 5; when
\* process_ticket is over all five are done, the environment and the ticket
\* are marked complete and exactly one "Onboarding completed" comment was
\* posted; the exit status is 0; and every run terminates.
C11_HappyPath ==
    /\ [](Happy =>
            /\ IsPrefix(StepsList(mem, T, E), <<1, 2, 3, 4, 5>>)
            /\ Returned =>
                  /\ StepsList(mem, T, E) = <<1, 2, 3, 4, 5>>
                  /\ is_env_completed(mem, T, E)
                  /\ TicketFlag(mem, T)
                  /\ Count(trace, Ev("jira.add_comment", 0, "Onboarding completed")) = 1
                  /\ failed = <<>>
            /\ pc = At("off") /\ exit_code # NoExit => exit_code = 0)
    /\ (pc.ph # "off") ~> (pc.ph = "off")

\* the one-user ticket went through all five prompts and the POST, and the
\* run has exited
C11_Witness ==
    /\ Happy /\ T = "OPS-2" /\ hist.work = <<"OPS-2">>
    /\ \A k \in Steps : Approved(k)
    /\ HasEv("call_onboard_api_for_user", "carol@corp.io")
    /\ pc = At("off") /\ exit_code = 0
    /\ TicketFlag(mem, T)

\* the keys of the tickets main is done with in this run, in order, and
\* those of them whose process_ticket raised
RECURSIVE KeysOf(_)
KeysOf(h) == IF h = <<>> THEN <<>> ELSE <<Head(h)[1]>> \o KeysOf(Tail(h))

RECURSIVE RaisedKeys(_)
RaisedKeys(h) ==
    IF h = <<>> THEN <<>>
    ELSE (IF Head(h)[2] = "raised" THEN <<Head(h)[1]>> ELSE <<>>) \o RaisedKeys(Tail(h))

\* main has left the ticket loop and exited
Exited == pc = At("off") /\ exit_code # NoExit

\* C12: main handles the tickets of the list one by one in list order, each
\* once: skipped only when its environment is complete, else passed to
\* process_ticket; a raising ticket does not stop the loop; the failed list
\* holds exactly the keys whose process_ticket raised; at exit every ticket
\* of the list has been handled.
C12_BatchIsolation ==
    /\ KeysOf(hist.handled) \o queue = hist.work
    /\ failed = RaisedKeys(hist.handled)
    /\ \A i \in 1..Len(hist.handled) :
          hist.handled[i][2] = "skipped" =>
              is_env_completed(mem, hist.handled[i][1],
                               ticket_environment(hist.handled[i][1]))
    /\ pc.ph \notin {"off", "resolve", "loop"} =>
          /\ queue # <<>> /\ T = Head(queue)
          /\ ~Has("main.skip_completed")
    /\ Exited => KeysOf(hist.handled) = hist.work

\* the first ticket failed, the second one was still onboarded to the end
C12_Witness ==
    /\ Exited /\ exit_code = 1
    /\ hist.work = <<"OPS-3", "OPS-2">>
    /\ hist.handled = << <<"OPS-3", "raised">>, <<"OPS-2", "returned">> >>
    /\ failed = <<"OPS-3">>
    /\ TicketFlag(mem, "OPS-2")

\* the explicitly requested ticket could not be fetched or parsed
ExplicitUnavailable ==
    \/ HasEv("jira.fetch_ticket", "None")
    \/ HasEv("raise", "jira.fetch_ticket")

C14_Claim ==
    Exited => cache = {} /\ conns = {}

\* this run loaded a state file that exists and does not parse
LoadedCorrupt == hist.loaded = "corrupt" /\ pc.ph # "off"

\* the store built from an unparsable file is empty: nothing is done,
\* nothing is complete, no password, no tenant
C15_EmptyAfterCorrupt ==
    LoadedCorrupt /\ pc = At("resolve") =>
        /\ mem = EmptyDict
        /\ \A t \in Tickets : \A e \in Envs \cup {ticket_environment(t)} :
              /\ \A k \in Steps : ~is_step_done(mem, t, e, k)
              /\ ~is_env_completed(mem, t, e)
              /\ get_tenant(mem, t, e) = NoneRec
        /\ \A t \in Tickets : get_monitor_password(mem, t) = NoneStr

\* C15 (as claimed): ..., and the run that follows skips no step as done:
\* every step it gets done was prompted for and executed.
C15_Claim ==
    /\ C15_EmptyAfterCorrupt
    /\ LoadedCorrupt /\ InCall =>
          \A k \in Steps :
              /\ ~FoundDone(k)
              /\ is_step_done(mem, T, E, k) => Approved(k) /\ Invoked(StepAction(k), k)

\* C15 (amended): ..., except that step 1 is marked done with no prompt and
\* no POST when every user of the ticket already has an account.
C15_Amended ==
    /\ C15_EmptyAfterCorrupt
    /\ LoadedCorrupt /\ InCall =>
          \A k \in Steps :
              /\ ~FoundDone(k)
              /\ is_step_done(mem, T, E, k) =>
                    \/ Approved(k) /\ Invoked(StepAction(k), k)
                    \/ k = 1 /\ ~Prompted(1) /\ ~Invoked(StepAction(1), 1)

\* a run that loaded an unparsable file went through all five steps again
C15_Witness ==
    /\ LoadedCorrupt /\ InCall
    /\ \A k \in Steps : Approved(k) /\ is_step_done(mem, T, E, k)
    /\ is_env_completed(mem, T, E)

MutatorNames ==
    {"mark_step_done", "save_tenant", "save_monitoring_user",
     "save_monitor_password", "mark_env_completed", "mark_completed"}

\* this step is a mutating StateManager call returning
MutatorReturns == ops' = ops + 1 /\ ret'.fn \in MutatorNames

\* C16: when a mutator returns and its save worked, the state file holds
\* exactly the in-memory state, so a StateManager loaded from it reports the
\* same; with storage working all along, file and memory never differ.
C16_FlushPerWrite ==
    /\ [](faults = 0 => Load(file) = mem)
    /\ [][MutatorReturns /\ faults' = faults =>
              /\ file' = FileJson(mem')
              /\ Load(file') = mem'
              /\ ret'.fn = "mark_step_done" =>
                    is_step_done(Load(file'), ret'.ticket, ret'.env, ret'.step)]_vars

\* with storage working, the monitoring user was saved after a step was
\* marked done, and the file holds both
C16_Witness ==
    /\ ret.fn = "save_monitoring_user" /\ faults = 0
    /\ file.kind = "json"
    /\ get_monitoring_user(file.data, "OPS-1", StoreEnv) = monitoring_email("OPS-1")
    /\ is_step_done(file.data, "OPS-1", StoreEnv, 1)

\* what the queries answer right after the call r, on the state s
Reflects(s, r) ==
    CASE r.fn = "mark_step_done" -> is_step_done(s, r.ticket, r.env, r.step)
      [] r.fn = "save_tenant" -> get_tenant(s, r.ticket, r.env).id = r.val
      [] r.fn = "save_monitoring_user" -> get_monitoring_user(s, r.ticket, r.env) = r.val
      [] r.fn = "save_monitor_password" -> get_monitor_password(s, r.ticket) = r.val
      [] r.fn = "mark_env_completed" -> is_env_completed(s, r.ticket, r.env)
      [] r.fn = "mark_completed" -> TicketFlag(s, r.ticket)

\* C17: a mutator returns whether or not its save worked, and the in-memory
\* state then reflects the mutation; a failed save leaves the file as it was
\* or unusable; a save that works writes the whole in-memory state, the
\* mutations whose own save had failed included.
C17_SaveFailureNonFatal ==
    [][MutatorReturns =>
          /\ Reflects(mem', ret')
          /\ \A t \in StoreTickets, e \in Envs :
                \A k \in get_steps_done(mem, t, e) : is_step_done(mem', t, e, k)
          /\ faults' # faults => file' \in {file, FileCorrupt}
          /\ faults' = faults => file'.kind = "json" /\ file'.data = mem']_vars

\* the save of the first mark failed, the save of the second one wrote both
C17_Witness ==
    /\ faults = 1 /\ ops = 2 /\ ret.fn = "mark_step_done"
    /\ Len(StepsList(mem, "OPS-1", StoreEnv)) = 2
    /\ file = FileJson(mem)

\* two stores hold the same tickets with the same records
SameStore(a, b) ==
    /\ DOMAIN a = DOMAIN b
    /\ \A t \in DOMAIN a : a[t] = b[t]

\* no ordinal twice in the list
NoDuplicates(q) == \A i, j \in 1..Len(q) : q[i] = q[j] => i = j

\* C18: marking a step twice gives the state that marking it once gives,
\* marking a step that is already done changes nothing, and no steps_done
\* list ever holds an ordinal twice.
C18_MarkIdempotent ==
    /\ [](\A t \in StoreTickets, e \in Envs :
            /\ NoDuplicates(StepsList(mem, t, e))
            /\ \A k \in StoreSteps :
                  LET once == mark_step_done(mem, t, e, k)
                  IN  /\ SameStore(mark_step_done(once, t, e, k), once)
                      /\ NoDuplicates(StepsList(once, t, e)))
    /\ [][MutatorReturns /\ ret'.fn = "mark_step_done" /\ ret'.noop => mem' = mem]_vars

\* mark_step_done was called for a step that was already done
C18_Witness ==
    /\ ret.fn = "mark_step_done" /\ ret.noop
    /\ StepsList(mem, ret.ticket, ret.env) = <<ret.step>>

\* the monitor password the state file holds for a ticket, None when the file
\* is absent or unparsable
FilePassword(t) == get_monitor_password(Load(file), t)

NoDomain(t) == ticket_environment(t) \notin ENV_DOMAIN_MAP

\* C20 as stated: when process_ticket has handled a ticket whose environment
\* has no Onboard API domain, step 1 of that environment is marked done (the
\* sequence went past domain resolution instead of being aborted there).
C20_Claim ==
    \A i \in 1..Len(hist.handled) :
        LET t == hist.handled[i][1]
        IN  NoDomain(t) /\ hist.handled[i][2] # "skipped"
            => is_step_done(mem, t, ticket_environment(t), 1)

\* the users the Onboard API was called for in this call, in order (a call
\* that raised included)
RECURSIVE PostedUsers(_)
PostedUsers(tr) ==
    IF tr = <<>> THEN <<>>
    ELSE LET ev == tr[Len(tr)]
             before == PostedUsers(SubSeq(tr, 1, Len(tr) - 1))
         IN  IF ev.op = "call_onboard_api_for_user" THEN Append(before, ev.arg)
             ELSE before

PostRaised == Invoked("call_onboard_api_for_user", 1) /\ ~Has("call_onboard_api_for_user")

\* the positions of the step-1 prompts in the trace
Step1Prompts == {i \in 1..Len(trace) : trace[i].op = "confirm_step" /\ trace[i].k = 1}

\* step 1 was marked done by this call, through the partition of the users
Step1MarkedHere ==
    /\ InCall
    /\ 1 \notin hist.call.start_done
    /\ is_step_done(mem, T, E, 1)

\* C21: no user with an account type is POSTed; the POSTs follow the list of
\* users needing provisioning, one each and in order, all after the single
\* approval of step 1; when that list is empty step 1 is marked done with no
\* prompt and no POST, and otherwise it is marked done only after one POST
\* for every user of the list.
C21_Step1Partition ==
    /\ \A i \in 1..Len(trace) :
          IsCall(i, "call_onboard_api_for_user", 1) =>
             /\ Cardinality(Step1Prompts) = 1
             /\ \E j \in 1..(i - 1) : trace[j] = Ev("confirm_step", 1, "approved")
             /\ trace[i].op # "raise" => trace[i].arg \notin hist.call.known
    /\ IsPrefix(PostedUsers(trace), hist.call.new)
    /\ InCall => SeqSet(hist.call.new) \cap hist.call.known = {}
    /\ Step1MarkedHere =>
          /\ PostedUsers(trace) = hist.call.new
          /\ ~PostRaised
          /\ hist.call.new = <<>> => Step1Prompts = {}
          /\ hist.call.new # <<>> => Cardinality(Step1Prompts) = 1 /\ Approved(1)

\* one of the two users of the ticket had an account: one approval, one POST
\* for the other user, step 1 marked done
C21_Witness ==
    /\ Step1MarkedHere
    /\ hist.call.known = {"bob@acme.com"}
    /\ PostedUsers(trace) = <<"alice@acme.com">>
    /\ Approved(1)

\* the last process_ticket call of this run ended by raising into main
LastCallRaised ==
    /\ hist.handled # <<>>
    /\ hist.handled[Len(hist.handled)] = <<T, "raised">>

\* process_ticket called jira.add_comment with the failure comment
FailureCommentAttempted ==
    \/ HasEv("jira.add_comment", "Onboarding failed")
    \/ HasEv("raise", "jira.add_comment: Onboarding failed")

\* C22 as stated: a ticket is put into main's failed list only after
\* process_ticket tried to post the failure comment on it.
C22_Claim == LastCallRaised => FailureCommentAttempted

\* main's loop is at a ticket whose required environment is complete in the
\* store
AtCompletedTicket ==
    /\ pc = At("loop")
    /\ queue # <<>>
    /\ is_env_completed(mem, Cur, CurEnv)

\* C23: when main reaches a ticket whose environment is complete, its next
\* step only moves on to the next ticket: nothing is logged but the skip, so
\* no issue-tracker operation, prompt, database or API call is made, no
\* client is opened, the failed list stays as it is, and the in-memory store
\* and the state file are unchanged.
C23_SkipCompletedTicket ==
    [][AtCompletedTicket /\ pc'.ph # "off" =>
          /\ trace' = <<Ev("main.skip_completed", 0, Cur)>>
          /\ queue' = Tail(queue)
          /\ pc' = At("loop")
          /\ UNCHANGED <<mem, file, faults, cache, conns, failed, tenant, new_users>>
          /\ hist'.gen = hist.gen]_vars

\* a later run skipped the ticket whose environment an earlier run completed
C23_Witness ==
    /\ trace = <<Ev("main.skip_completed", 0, "OPS-1")>>
    /\ hist.handled = << <<"OPS-1", "skipped">> >>
    /\ is_env_completed(mem, "OPS-1", "UAE POC")
    /\ runs >= 2

\* C24 as stated: over a state file that parses as JSON, no StateManager
\* query and no StateManager mutation raises.
C24_Claim == ret.fn # "KeyError"

\* a process_ticket call in which, so far, no prompt was declined and
\* nothing raised
Smooth ==
    /\ InCall /\ ~Has("main.skip_completed")
    /\ hist.call.declined = 0 /\ ~Has("raise")

\* C25 as stated: in an invocation where everything succeeds and is
\* approved, no step recorded done at its start is prompted for, and the
\* action of no such step is invoked.
C25_Claim ==
    Smooth => \A k \in hist.call.start_done : ~Prompted(k) /\ ~Invoked(StepAction(k), k)

\* C25: an invocation on a ticket whose environment is incomplete, in which
\* every call succeeds and every prompt is approved, goes on until all five
\* steps are recorded done and the environment is marked complete, whatever
\* earlier invocations left behind; it prompts for no step recorded done at
\* its start and invokes the action of none, except pg.get_tenant for a done
\* step 2 with no cached tenant; the steps not recorded done are approved
\* and executed (step 1 without prompt when no user needs provisioning).
C25_Amended ==
    /\ [](Smooth =>
            /\ \A k \in hist.call.start_done :
                  /\ ~Prompted(k)
                  /\ k # 2 => ~Invoked(StepAction(k), k)
                  /\ k = 2 /\ Invoked(StepAction(k), k) => ~hist.call.start_tenant
            /\ Returned =>
                  /\ get_steps_done(mem, T, E) = Steps
                  /\ is_env_completed(mem, T, E)
                  /\ \A k \in Steps \ hist.call.start_done :
                        /\ k # 1 => Approved(k) /\ Invoked(StepAction(k), k)
                        /\ k = 1 => (hist.call.new # <<>> <=> Approved(1))
                        /\ k = 1 => PostedUsers(trace) = hist.call.new)
    /\ (pc = At("pt_in_progress")) ~>
          (~Smooth \/ (get_steps_done(mem, T, E) = Steps /\ is_env_completed(mem, T, E)))

\* the earlier invocation failed at step 3; this one skipped steps 1 and 2,
\* ran steps 3 to 5 and completed the environment
C25_Witness ==
    /\ Smooth /\ Returned
    /\ runs >= 2
    /\ hist.call.prev_raised = 3
    /\ hist.call.start_done = {1, 2}
    /\ FoundDone(1) /\ FoundDone(2) /\ ~Prompted(1) /\ ~Prompted(2)
    /\ Approved(3) /\ Approved(4) /\ Approved(5)
    /\ is_env_completed(mem, T, E)

\* the steps a store reports done for the ticket the instances work on
DoneIn(s) == {<<e, k>> \in Envs \X StoreSteps : is_step_done(s, "OPS-1", e, k)}

\* C26: nothing arbitrates between the instances. A save that works writes
\* the saving instance's whole in-memory state, whatever the file held: the
\* steps the file reports afterwards are exactly those of that instance, so
\* what only the other instance had recorded and flushed is gone from the
\* file; and a mutator is never held back because the file has changed.
C26_LastWriterWins ==
    /\ [][MutatorReturns /\ faults' = faults =>
              /\ file' = FileJson(mem')
              /\ DoneIn(Load(file')) = DoneIn(mem')
              /\ DoneIn(Load(file)) \ DoneIn(Load(file')) = DoneIn(Load(file)) \ DoneIn(mem')]_vars
    /\ [][ret'.fn = "switch" => file' = file /\ mem' = peer /\ peer' = mem]_vars
    /\ [](ops < MaxStoreOps => ENABLED SmMarkStepDone)

\* the lost update: with every save so far having worked, one instance
\* marked step 1 and flushed it; the other, which had loaded the file before,
\* has then marked step 2 and saved, and the file no longer holds step 1
C26_Witness ==
    /\ faults = 0
    /\ ret.fn = "mark_step_done" /\ ret.step = 2 /\ ret.env = StoreEnv
    /\ file = FileJson(mem)
    /\ is_step_done(peer, "OPS-1", StoreEnv, 1)
    /\ ~is_step_done(Load(file), "OPS-1", StoreEnv, 1)
    /\ is_step_done(Load(file), "OPS-1", StoreEnv, 2)

\* all five steps are in the done set of every environment the store marks
\* complete
CompleteHasAllSteps(s) ==
    \A t \in Tickets : \A e \in Envs :
        is_env_completed(s, t, e) => get_steps_done(s, t, e) = Steps

\* C27 as stated: completed implies steps 1..5 done, and an environment the
\* store reports complete is reported complete for ever after.
C27_Claim ==
    /\ [](CompleteHasAllSteps(mem) /\ CompleteHasAllSteps(Load(file)))
    /\ [][\A t \in Tickets : \A e \in Envs :
              is_env_completed(Load(file), t, e) => is_env_completed(Load(file'), t, e)]_vars

\* C27: in the running process and in the state file, an environment marked
\* complete has steps 1..5 done; while a process runs its completed flag
\* never goes back to false; a new run reports what the file holds; and the
\* file loses a completed flag only when a write fails and leaves the file
\* unparsable.
C27_Amended ==
    /\ [](CompleteHasAllSteps(mem) /\ CompleteHasAllSteps(Load(file)))
    /\ [][\A t \in Tickets : \A e \in Envs :
              /\ pc.ph # "off" /\ pc'.ph # "off" /\ is_env_completed(mem, t, e)
                    => is_env_completed(mem', t, e)
              /\ pc.ph = "off" /\ pc'.ph # "off"
                    => (is_env_completed(mem', t, e) <=> is_env_completed(Load(file), t, e))
              /\ is_env_completed(Load(file), t, e) /\ ~is_env_completed(Load(file'), t, e)
                    => faults' = faults + 1 /\ file' = FileCorrupt]_vars

\* a second run loaded the completed flag the first run had written
C27_Witness ==
    /\ runs = 2 /\ pc.ph # "off"
    /\ hist.loaded = "json"
    /\ is_env_completed(mem, "OPS-1", "UAE POC")
    /\ get_steps_done(mem, "OPS-1", "UAE POC") = Steps
    /\ file = FileJson(mem)

\* this step is a registry.get call
GetStep == ops' = ops + 1 /\ ret'.fn = "registry.get"

\* C28 as stated: clients are constructed at most once per environment in a
\* run: a get never constructs a client for an environment that has an open
\* client already, a get for a cached environment constructs nothing, and a
\* get that raises leaves the cache as it was.
C28_Claim ==
    [][GetStep =>
          /\ \A c \in ClientsOf(ret'.env) :
                ret'.outcome \in {"constructed", "raised in Neo4jClient"} /\ c[2] = "pg"
                   => c \notin conns
          /\ ret'.env \in cache => conns' = conns /\ cache' = cache
          /\ ~GetReturns(ret'.outcome) => cache' = cache]_vars

---------------------------------------------------------------------------
\* C29: status transitions are best-effort.  mark_in_progress and mark_done
\* return normally whatever comes of the transition (made, no status name
\* configured, no matching transition, the tracker call failing): the step
\* raises nothing, leaves the failed list and the queue alone, and goes on to
\* the statement after it, which for mark_done is state.mark_completed.  So a
\* call that raised nothing and was not declined reaches state.mark_completed
\* and returns without its ticket in the failed list, on every tracker.
TransitionStep ==
    pc.ph \in {"pt_in_progress", "pt_mark_done"} /\ Len(trace') > Len(trace)

C29_TransitionsBestEffort ==
    /\ [][TransitionStep =>
            /\ failed' = failed /\ queue' = queue
            /\ trace' = Append(trace, Ev(IF pc.ph = "pt_in_progress"
                                            THEN "jira.mark_in_progress"
                                            ELSE "jira.mark_done", 0, workflow))
            /\ pc' = At(IF pc.ph = "pt_in_progress" THEN "pt_password"
                                                     ELSE "pt_mark_completed")]_vars
    /\ [](Returned /\ ~Has("raise") /\ hist.call.declined = 0
            /\ Has("jira.mark_in_progress") =>
              /\ HasEv("jira.mark_done", workflow)
              /\ Has("state.mark_completed")
              /\ T \notin SeqSet(failed))

\* C29 witness: on a tracker whose transition calls fail, a call made both
\* transitions, wrote the ticket's completed flag and returned with nothing
\* in the failed list; the same on a tracker with no matching transition.
C29_Witness ==
    /\ workflow = "call failed"
    /\ Returned
    /\ HasEv("jira.mark_in_progress", "call failed")
    /\ HasEv("jira.mark_done", "call failed")
    /\ Has("state.mark_completed")
    /\ failed = <<>>

---------------------------------------------------------------------------
\* C30: pg.apply_onboarding_updates is all-or-nothing.  After it returns
\* normally the tenant row and the subscriber row of the domain both carry
\* the onboarding values in the committed database (a table with no row of
\* that name is left as it was); after it raises the committed database is
\* what it was before the call and the connection holds no pending update (a
\* later commit on it makes nothing of the failed call visible), and the
\* exception reaches the caller.  Rows of other names are never touched.
ApplyStep == ops' = ops + 1 /\ ret'.fn = "pg.apply_onboarding_updates"

RowAfterUpdate(st) == IF st = "absent" THEN "absent" ELSE "set"

C30_ApplyAllOrNothing ==
    [][ApplyStep =>
          /\ db'.working = db'.committed
          /\ ret'.raised <=> ret'.at # "committed"
          /\ ret'.raised => db'.committed = db.committed
          /\ ~ret'.raised =>
                \A r \in PgRows :
                    db'.committed[r] = IF r[2] = ret'.domain
                                       THEN RowAfterUpdate(db.committed[r])
                                       ELSE db.committed[r]]_vars

\* C30 witness: the subscriber UPDATE raised after the tenant UPDATE had run
\* on an existing tenant row, and neither row is changed, in the committed
\* database or in the connection's transaction.
C30_Witness ==
    /\ ret.fn = "pg.apply_onboarding_updates"
    /\ ret.at = "subscriber UPDATE raised"
    /\ db.committed[<<"tenant", ret.domain>>] = "unset"
    /\ db.committed[<<"subscriber", ret.domain>>] = "unset"
    /\ db.working = db.committed

---------------------------------------------------------------------------
\* C31: pg.create_monitoring_user is idempotent by pre-check.  When a user
\* with the monitoring email exists the call inserts nothing and returns
\* False, otherwise it inserts exactly one user and returns True; either way
\* step 3 goes on to mark_step_done(3).  So over any runs, stops between the
\* insert and mark_step_done(3) included, the database never holds a second
\* user with a monitoring email, and a call that got an answer from
\* create_monitoring_user has step 3 recorded done once past the mark.
CreateStep ==
    /\ pc = AtStep("act", 3)
    /\ Len(trace') = Len(trace) + 1
    /\ trace'[Len(trace')].op = "pg.create_monitoring_user"

UserCount(d, email) == d.committed[<<"user", email>>]

C31_CreateIdempotent ==
    /\ [](\A e \in MonEmails : UserCount(db, e) <= 1)
    /\ [](db.working = db.committed)
    /\ [][CreateStep =>
            LET e == monitoring_email(Cur)
                created == trace'[Len(trace')].arg
            IN  /\ created = "False" <=> UserCount(db, e) > 0
                /\ created = "False" => db' = db
                /\ created = "True" => UserCount(db', e) = 1
                /\ \A r \in DbKeys \ {<<"user", e>>} : db'.committed[r] = db.committed[r]
                /\ pc' = AtStep("mark", 3)]_vars
    /\ [](InCall /\ Has("pg.create_monitoring_user") /\ pc # AtStep("mark", 3) =>
              is_step_done(mem, T, E, 3))

\* C31 witness: a run was stopped after the insert and before
\* mark_step_done(3); the next run asked again, got False, marked step 3
\* done, and the database holds one monitoring user.
C31_Witness ==
    /\ InCall
    /\ ~(3 \in hist.call.start_done)
    /\ HasEv("pg.create_monitoring_user", "False")
    /\ is_step_done(mem, T, E, 3)
    /\ UserCount(db, monitoring_email(T)) = 1

---------------------------------------------------------------------------
\* C32: every record extract_customer_details returns has a non-empty
\* firstname, a lastname that is not empty (a single blank when the item had
\* none) and an email that is stripped and lower-cased; items lacking a
\* firstname or an email are dropped, the others are kept in order; and the
\* function raises rather than return an empty list.
Extracted == ret.fn = "extract_customer_details"

Stripped(str) == str = <<>> \/ (Head(str) # " " /\ str[Len(str)] # " ")

Kept(raw_list) == {i \in 1..Len(raw_list) : ~Skipped(raw_list[i])}

---------------------------------------------------------------------------
\* C33: in every state reached from an empty progress store through runs of
\* the tool, the ticket-level completed flag of a ticket is true only if the
\* record of the ticket's environment is marked complete; in the store of
\* the process and in what the state file holds.
FlagOnlyIfEnvComplete(s) ==
    \A t \in Tickets : TicketFlag(s, t) => is_env_completed(s, t, ticket_environment(t))

C33_FlagOnlyIfEnvComplete ==
    FlagOnlyIfEnvComplete(mem) /\ FlagOnlyIfEnvComplete(Load(file))

\* C33 witness: a run wrote the completed flag of OPS-1 after marking its
\* environment complete, and the state file holds both.
C33_Witness ==
    /\ TicketFlag(mem, "OPS-1") /\ TicketFlag(Load(file), "OPS-1")
    /\ is_env_completed(Load(file), "OPS-1", "UAE POC")
    /\ Has("state.mark_completed")

---------------------------------------------------------------------------
\* C34: steps run in strict ascending order and the done set is a prefix.  In
\* every state reached from an empty progress store through runs of the tool
\* the steps_done list of each (ticket, environment) is 1, 2, ..., k for some
\* k in 0..5, in the store of the process and in the state file; and the
\* action of step k is invoked only when steps 1..k-1 are recorded done.
StepsDoneList(s, t, e) == Get(EnvGet(s, t, e), "steps_done", <<>>)

IsPrefixList(list) ==
    /\ Len(list) <= TOTAL_STEPS
    /\ \A i \in 1..Len(list) : list[i] = i

DoneIsPrefix(s) ==
    \A t \in Tickets : \A e \in Envs : IsPrefixList(StepsDoneList(s, t, e))

InvokesStep(k) ==
    /\ Len(trace') = Len(trace) + 1
    /\ LET ev == trace'[Len(trace')]
       IN  /\ ev.k = k
           /\ ev.op = StepAction(k) \/ (ev.op = "raise" /\ ev.arg = StepAction(k))

C34_DoneSetIsPrefix ==
    /\ [](DoneIsPrefix(mem) /\ DoneIsPrefix(Load(file)))
    /\ [][\A k \in Steps :
              InvokesStep(k) => 1..(k - 1) \subseteq get_steps_done(mem, Cur, CurEnv)]_vars

\* C34 witness: step 5's action was invoked in a run that started with
\* steps 1..3 done, and the store now holds 1..5.
C34_Witness ==
    /\ InCall
    /\ hist.call.start_done = 1..3
    /\ Invoked(StepAction(5), 5)
    /\ StepsDoneList(mem, T, E) = <<1, 2, 3, 4, 5>>

---------------------------------------------------------------------------
\* C35 (as stated): over any runs of the tool on a ticket, stopped and
\* restarted anywhere, the 'Onboarding completed' comment is posted at most
\* once for the ticket.
C35_Claim == \A t \in Tickets : hist.posted[t] <= 1

\* C35 (amended): the comment is posted at most once as long as no save of
\* the store failed; it is posted again only after a _save() failed (the
\* file did not get the environment's completed flag, and the run ended
\* before a later save wrote it), and never twice in one run.
C35_Amended ==
    /\ [](\A t \in Tickets : hist.posted[t] >= 2 => faults >= 1)
    /\ [](\A t \in Tickets : hist.posted[t] <= runs)
    /\ [][hist'.posted # hist.posted =>
            /\ pc = At("pt_comment")
            /\ Get(EnvGet(mem, Cur, CurEnv), "completed", FALSE)
            /\ ~Has("jira.add_comment")
            /\ hist'.posted = [hist.posted EXCEPT ![Cur] = @ + 1]]_vars

\* C35 witness: the comment was posted, the run was stopped before
\* state.mark_completed, and the next run skipped the ticket: the comment
\* stays posted once.
C35_Witness ==
    /\ hist.posted["OPS-1"] = 1
    /\ runs >= 2
    /\ Has("main.skip_completed")
    /\ ~TicketFlag(mem, "OPS-1")

---------------------------------------------------------------------------
\* C36 (as stated): the cached tenant of a (ticket, environment) is written
\* only by step 2's executed path.  A tenant is in the store only if step 2
\* is recorded done; once in the state file it is never overwritten or
\* removed by a later operation or run; and the fallback re-fetch writes
\* nothing to the store.
HasTenant(s, t, e) == get_tenant(s, t, e) # NoneRec

TenantOnlyIfStep2(s) ==
    \A t \in Tickets : \A e \in Envs : HasTenant(s, t, e) => is_step_done(s, t, e, 2)

RefetchWritesNothing ==
    pc = At("s2_refetch") /\ pc'.ph # "off" => SameStore(mem', mem) /\ file' = file

C36_Claim ==
    /\ [](TenantOnlyIfStep2(mem) /\ TenantOnlyIfStep2(Load(file)))
    /\ [][\A t \in Tickets : \A e \in Envs :
              HasTenant(Load(file), t, e) =>
                  get_tenant(Load(file'), t, e) = get_tenant(Load(file), t, e)]_vars
    /\ [][RefetchWritesNothing]_vars

\* C36 (amended): a tenant is in the store only if step 2 is recorded done;
\* it enters the store of a process only at save_tenant of a step 2 that was
\* found not done, approved and fetched in that call; a running process
\* never changes or drops it and a starting one has what the file holds; the
\* file loses it only when a failed write leaves the file unparsable (the
\* next run then starts from an empty store); the re-fetch writes nothing.
C36_Amended ==
    /\ [](TenantOnlyIfStep2(mem) /\ TenantOnlyIfStep2(Load(file)))
    /\ [][\A t \in Tickets : \A e \in Envs :
              /\ pc.ph # "off" /\ pc'.ph # "off" /\ HasTenant(mem, t, e)
                    => get_tenant(mem', t, e) = get_tenant(mem, t, e)
              /\ pc.ph # "off" /\ pc'.ph # "off" /\ ~HasTenant(mem, t, e) /\ HasTenant(mem', t, e)
                    => /\ pc = At("s2_save_tenant") /\ t = Cur /\ e = CurEnv
                       /\ ~FoundDone(2) /\ Approved(2) /\ Invoked("pg.get_tenant", 2)
              /\ pc.ph = "off" /\ pc'.ph # "off"
                    => get_tenant(mem', t, e) = get_tenant(Load(file), t, e)
              /\ HasTenant(Load(file), t, e)
                   /\ get_tenant(Load(file'), t, e) # get_tenant(Load(file), t, e)
                    => faults' = faults + 1 /\ file' = FileCorrupt]_vars
    /\ [][RefetchWritesNothing]_vars
    /\ [](InCall /\ FoundDone(2) /\ Invoked("pg.get_tenant", 2) => ~HasTenant(mem, T, E))

\* C36 witness: a call found step 2 done with no tenant cached, re-fetched
\* it, went on to record step 3, and neither the store nor the state file
\* holds a tenant.
C36_Witness ==
    /\ InCall
    /\ FoundDone(2) /\ Invoked("pg.get_tenant", 2)
    /\ is_step_done(mem, T, E, 3)
    /\ ~HasTenant(mem, T, E)
    /\ file.kind = "json" /\ ~HasTenant(file.data, T, E)

---------------------------------------------------------------------------
\* C37: the read-only StateManager queries (is_step_done, get_steps_done,
\* get_tenant, get_monitoring_user, get_monitor_password, is_env_completed,
\* is_completed, started_at) leave the store of the process and the state
\* file unchanged for every input, tickets and environments without a record
\* included, whether they return or raise; a ticket or environment record
\* appears in the store only by a mutating operation.
QueryNames ==
    {"is_step_done", "get_steps_done", "get_tenant", "get_monitoring_user",
     "get_monitor_password", "is_env_completed", "is_completed", "started_at"}

QueryStep ==
    \/ ret'.fn \in QueryNames
    \/ ret'.fn = "KeyError" /\ ret'.in \in QueryNames

EnvRecords(s) ==
    {w \in QueryTickets \X Envs :
        w[1] \in DOMAIN s /\ w[2] \in DOMAIN Get(s[w[1]], "environments", EmptyDict)}

C37_QueriesCreateNoRecord ==
    /\ [][QueryStep => SameStore(mem', mem) /\ file' = file /\ faults' = faults]_vars
    /\ [][DOMAIN mem' # DOMAIN mem \/ EnvRecords(mem') # EnvRecords(mem) =>
              ret'.fn \in MutatorNames \cup {"_load"}]_vars
    /\ [][(DOMAIN mem' \ DOMAIN mem) # {} \/ (EnvRecords(mem') \ EnvRecords(mem)) # {} =>
              ret'.fn \in MutatorNames]_vars

\* C37 witness: after a mutating operation on OPS-1, started_at was asked
\* for OPS-2, which has no record, answered None, and the store and the file
\* still have no record of OPS-2.
C37_Witness ==
    /\ ret.fn = "started_at" /\ ret.ticket = "OPS-2" /\ ret.val = NoneStr
    /\ ops >= 1
    /\ "OPS-2" \notin DOMAIN mem
    /\ "OPS-2" \notin DOMAIN Load(file)


====
